---- MODULE Spec2Model ----
(***************************************************************************)
(* SubScout: the ingestion and classification pipeline.                    *)
(*                                                                         *)
(* One mailbox account, its Gmail source, the users/settings/              *)
(* processed_emails/subscriptions tables, the calendar, and the handler    *)
(* invocations (webhook POST, manual-sync POST, scan-recent GET) that run  *)
(* against them.  A handler is split at the awaits where another           *)
(* invocation can observe or change shared state.                          *)
(*                                                                         *)
(* Spec runs all three handlers with the program's batch size; SpecBatch   *)
(* runs the webhook handler alone, at batch sizes 1 and BATCH_SIZE.        *)
(* SpecSerial runs webhook invocations one after the other; SpecDisabled   *)
(* starts with monitoring switched off; SpecToken calls the token          *)
(* provider on every kind of users row; SpecCron runs the watch renewal    *)
(* sweep over the users table; SpecSettings runs the settings write;       *)
(* SpecInFlight runs processInBatches item by item; SpecClassifier calls   *)
(* classifyEmail and SpecReminder calls createReminder on their inputs.    *)
(* SpecLifecycle runs the webhook beside settings writes that register or  *)
(* clear the watch; SpecLabels runs the handlers on a mailbox with         *)
(* promotional and archived messages; SpecIngest interleaves webhook and   *)
(* manual sync; SpecHistory resolves bursts larger than the fetch limit;   *)
(* SpecWatch runs the renewal sweep beside the settings write on one       *)
(* account, and SpecWatchFair lets the sweep run again and again.          *)
(*                                                                         *)
(* Encoding: timestamps are whole days; a confidence c in [0,1] is the     *)
(* integer 100*c; SQL NULL / JS null is Null.                              *)
(***************************************************************************)
EXTENDS Integers, Sequences, FiniteSets, Bags, TLC

\* ---------------------------------------------------------------- bounds
MaxMsgs == 2        \* messages the mailbox receives
MaxRuns == 2        \* handler invocations that can be in flight together
MaxEvents == 1      \* calendar events the calendar accepts
MaxStarts == 2      \* handler invocations that are started in all
MaxClock == 3       \* latest wall-clock day a reminder is created on
MaxNow == 4         \* latest minute a token is asked for
MaxAccounts == 3    \* rows of the users table the renewal sweep sees
MaxItems == 4       \* items handed to one processInBatches call
MaxBurst == 77      \* messages the mailbox holds when they arrive in bursts

Null == 0 - 1

Msgs == 1..MaxMsgs
Runs == 1..MaxRuns
Clock == 0..MaxClock

\* ----------------------------------------------------- program constants
BATCH_SIZE == 10            \* webhooks/gmail/route.ts:11
CONFIDENCE_GATE == 70       \* 0.7 in route.ts:211
DEFAULT_DURATION_DAYS == 14 \* route.ts:221
MAX_HISTORY_MESSAGES == 50  \* gmail.ts:77
MANUAL_SYNC_LIMIT == 20     \* part_000:303
SCAN_DEFAULT_COUNT == 3     \* scan-recent/route.ts:18
EXPIRY_BUFFER_MS == 5          \* token.ts:10, in minutes
DEFAULT_REMINDER_DAYS == 2  \* schema.ts:99

INBOX == "INBOX"
CATEGORY_PROMOTIONS == "CATEGORY_PROMOTIONS"
PROMOTION_LABELS == {CATEGORY_PROMOTIONS}

UserId == "u1"
UserEmail == "u@x.com"

\* ------------------------------------------------------------ the mailbox
\* types/index.ts:1-9 (EmailClassification), the fields the pipeline reads.
Classification(sub, conf, dur, end) ==
  [is_subscription |-> sub, confidence |-> conf,
   duration_days |-> dur, end_date |-> end]

\* What the classifier can answer when its call succeeds.
Readings ==
  { Classification(TRUE, 70, Null, Null),
    Classification(TRUE, 69, 7, Null),
    Classification(FALSE, 95, Null, Null),
    Classification(TRUE, 70, 0, Null) }

\* The subjects and label sets a message can arrive with.
Subjects == {"s1", "s2"}
LabelSets == {{INBOX}}

VARIABLES
  srcHistory,       \* the mailbox's current historyId at the source
  content,          \* content[m]: message m of the mailbox (m = 1..Len)
  user,             \* the users row: gmailHistoryId, googleAccessToken
  accounts,         \* the users table by id, for the handler that walks it
  settings,         \* the settings row: enabled, reminderDaysBefore
  processedEmails,  \* bag of processed_emails rows
  subscriptions,    \* bag of subscriptions rows
  events,           \* calendar events created so far (ids 1..events)
  batchSize,        \* the batchSize processInBatches runs with
  started,          \* handler invocations started so far
  runs              \* runs[r]: the handler invocation in slot r

vars == <<srcHistory, content, user, accounts, settings, processedEmails,
          subscriptions, events, batchSize, started, runs>>

\* ---------------------------------------------------------- pure helpers
\* gmail.ts:24-28
IsPromotionalMessage(message) ==
  \E label \in message.labelIds : label \in PROMOTION_LABELS

\* Variant: an adapter that lets every message through.
IsPrimaryInboxMessageUnfiltered(message) == TRUE

\* gmail.ts:33-37
IsPrimaryInboxMessage(message) ==
  LET hasInboxLabel == INBOX \in message.labelIds
      isPromotional == IsPromotionalMessage(message)
  IN  hasInboxLabel /\ ~isPromotional

\* JS truthiness of a nullable number: null and 0 are falsy.
TruthyNumber(x) == x # Null /\ x # 0

\* JS truthiness of a nullable non-empty string (a date string, a historyId).
TruthyString(x) == x # Null

\* Variant: a default that calls the message a subscription.
FailedClassificationPositive == Classification(TRUE, 0, Null, Null)

\* claude.ts:157-165: the classification a failed call is absorbed into.
FailedClassification == Classification(FALSE, 0, Null, Null)

\* Variant: a gate that excludes the threshold itself.
QualifiesAbove(classification) ==
  classification.is_subscription /\ classification.confidence > CONFIDENCE_GATE

\* route.ts:211 / part_000:367 / scan-recent:87
Qualifies(classification) ==
  classification.is_subscription /\ classification.confidence >= CONFIDENCE_GATE

\* route.ts:212-222 / part_000:384-393 / scan-recent:104-113
ComputeEndDate(classification, date) ==
  IF TruthyString(classification.end_date)
    THEN classification.end_date
    ELSE IF TruthyNumber(classification.duration_days)
      THEN date + classification.duration_days
      ELSE date + DEFAULT_DURATION_DAYS

\* Variant: a createReminder that does not look at the reminder date.
ReminderInsertedAnyDate(endDate, reminderDaysBefore, now, calendarOk) ==
  calendarOk

\* part_009:20-45: createReminder inserts an event when the reminder date
\* has not passed and the calendar call succeeds.
ReminderInserted(endDate, reminderDaysBefore, now, calendarOk) ==
  LET reminderDate == endDate - reminderDaysBefore
  IN  reminderDate >= now /\ calendarOk

\* Variant: a createReminder that answers with an id whatever happened.
CreateReminderAlwaysId(endDate, reminderDaysBefore, now, calendarOk, nextId) ==
  nextId

\* part_009:12-57: what createReminder returns: the id of the inserted event
\* (nextId), or Null when the date has passed or the call failed.
CreateReminder(endDate, reminderDaysBefore, now, calendarOk, nextId) ==
  LET reminderDate == endDate - reminderDaysBefore
  IN  IF reminderDate < now THEN Null
      ELSE IF calendarOk THEN nextId ELSE Null

\* The historyId the source recorded when message m was added.
HistoryOf(m) == m + 1

Arrived == 1..Len(content)

Min(a, b) == IF a < b THEN a ELSE b

\* The first n elements of a sequence.
Take(s, n) == SubSeq(s, 1, Min(n, Len(s)))

Range(s) == {s[k] : k \in 1..Len(s)}

\* ----------------------------------------------------------- the tables
\* Variant: a ledger row that does not carry the message's id.
ProcessedRowUnkeyed(m, isSub) ==
  [userId |-> UserId, gmailMessageId |-> 0, isSubscription |-> isSub]

ProcessedRow(m, isSub) ==
  [userId |-> UserId, gmailMessageId |-> m, isSubscription |-> isSub]

\* Variant: a ledger lookup that never finds a row.
ProcessedForNone(m) == {}

\* db.query.processedEmails.findFirst / findMany by (userId, gmailMessageId)
ProcessedFor(m) ==
  {row \in BagToSet(processedEmails) :
     row.userId = UserId /\ row.gmailMessageId = m}

\* Variant: a ledger without the unique constraint.
UniqueViolationNever(m) == FALSE

\* schema.ts:128: gmail_message_id is UNIQUE; an INSERT of a present id fails.
UniqueViolation(m) ==
  \E row \in BagToSet(processedEmails) : row.gmailMessageId = m

\* db.query.subscriptions.findFirst by (userId, emailSubject)
SubscriptionFor(subject) ==
  {row \in BagToSet(subscriptions) :
     row.userId = UserId /\ row.emailSubject = subject}

\* route.ts:241-252; message is the Gmail id the row was made from, which
\* the table does not store.
SubscriptionRow(m, classification, endDate, calendarEventId) ==
  [userId |-> UserId, emailSubject |-> content[m].subject,
   detectedDate |-> content[m].date, endDate |-> endDate,
   calendarEventId |-> calendarEventId,
   confidence |-> classification.confidence, message |-> m]

\* Rows of a bag, counted with multiplicity.
Rows(bag) == BagCardinality(bag)

\* -------------------------------------------------------- handler state
NoResult == [status |-> "none", c |-> FailedClassification]

\* runs[r].item[m], where handler r stands with message m:
\*   "none"          not reached        "ins"  ledger INSERT pending
\*   "sub"           reminder and subscription INSERT pending
\*   "skipped"       already in the ledger
\*   "rejected"      the classification call threw
\*   "ledgerFailed"  the ledger INSERT threw
\*   "duplicate"     the ledger INSERT hit the unique constraint
\*   "recorded"      ledger row written, no subscription due
\*   "exists"        a subscription with the subject exists
\*   "subFailed"     the subscription INSERT threw
\*   "created"       subscription row written
Settled == {"skipped", "rejected", "ledgerFailed", "duplicate", "recorded",
            "exists", "subFailed", "created"}

IdleRun ==
  [pc |-> "idle", mode |-> "none", force |-> FALSE,
   tokenOk |-> TRUE,           \* the request carried the valid token
   emailAddress |-> "none",    \* pushData.emailAddress
   pushHistoryId |-> Null,     \* pushData.historyId
   historyId |-> Null,         \* the cursor resolution starts from
   latestHistoryId |-> Null,   \* the cursor resolution returned
   messages |-> <<>>,          \* resolved candidate messages
   todo |-> <<>>,              \* the list processInBatches / the loop walks
   i |-> 0,                    \* start of the current batch / loop index
   step |-> "none",            \* position inside the loop body
   result |-> [m \in Msgs |-> NoResult],   \* classification per message
   item |-> [m \in Msgs |-> "none"],       \* processor position per message
   processedCount |-> 0, skippedCount |-> 0,
   subscriptionCount |-> 0, errorCount |-> 0,
   response |-> 0, body |-> "none",
   \* history of the invocation, read only by the properties
   seen |-> {},                \* messages with a ledger row when it started
   wrote |-> FALSE,            \* it has persisted a cursor
   sourceError |-> FALSE,      \* its call of the message source threw
   rowRead |-> Null,           \* the users row it read, until its cursor write
   called |-> {}]              \* messages it passed to the classifier

\* The handler returns: its locals are gone; the response, the counts it
\* logged and the cursors it was given remain until the slot is reused.
Respond(run, status, body) ==
  [IdleRun EXCEPT !.pc = "done", !.mode = run.mode, !.force = run.force,
                  !.tokenOk = run.tokenOk,
                  !.emailAddress = run.emailAddress,
                  !.pushHistoryId = run.pushHistoryId,
                  !.latestHistoryId = run.latestHistoryId,
                  !.response = status, !.body = body,
                  !.item = run.item,
                  !.processedCount = run.processedCount,
                  !.skippedCount = run.skippedCount,
                  !.subscriptionCount = run.subscriptionCount,
                  !.errorCount = run.errorCount,
                  !.seen = run.seen, !.wrote = run.wrote,
                  !.sourceError = run.sourceError,
                  !.called = run.called]

\* Variant: a source adapter that answers every error like the 404 of a
\* stale cursor: nothing resolved, and the caller carries on.
SourceFailedAsEmpty(run, status, body) ==
  IF run.mode = "webhook"
    THEN [run EXCEPT !.sourceError = TRUE, !.pc = "advance",
                     !.messages = <<>>, !.latestHistoryId = Null]
    ELSE Respond([run EXCEPT !.sourceError = TRUE], 200, "success")

\* gmail.ts:122-123 and 142-148 with route.ts:278-287, part_000:462-475:
\* getMessagesSinceHistory rethrows what is not a 404 and getRecentMessages
\* lets the listing's throw pass; the handler's outer catch (or, in the
\* scan, the framework) answers.
SourceFailed(run, status, body) ==
  Respond([run EXCEPT !.sourceError = TRUE], status, body)

LedgerIds == {row.gmailMessageId : row \in BagToSet(processedEmails)}

Started(mode, force) ==
  [IdleRun EXCEPT !.mode = mode, !.force = force, !.seen = LedgerIds]

Upd(r, run) == runs' = [runs EXCEPT ![r] = run]

\* Slot r takes the next invocation: slots are interchangeable, so it is the
\* lowest idle one.
Free(r) ==
  /\ runs[r].pc = "idle"
  /\ \A q \in Runs : q < r => runs[q].pc # "idle"

\* No handler is inside a step that touches nothing shared (answering, or
\* awaiting its classifier calls): such a step is taken before any other
\* handler moves, which loses no interleaving of the shared state.
Quiet == \A r \in Runs : runs[r].pc \notin {"done", "classify"}

\* ------------------------------------------------------------ the source
\* A message arrives in the mailbox; the source publishes a notification
\* carrying the mailbox's new historyId.  Subjects are interchangeable, so
\* the first message's is fixed.
Deliver ==
  /\ Quiet
  /\ Len(content) < MaxMsgs
  /\ \E subject \in (IF content = <<>> THEN {"s1"} ELSE Subjects),
        labelIds \in LabelSets :
       content' = Append(content, [subject |-> subject, labelIds |-> labelIds,
                                   date |-> Len(content) + 1])
  /\ srcHistory' = srcHistory + 1
  /\ UNCHANGED <<user, settings, processedEmails, subscriptions, events,
                 accounts, batchSize, started, runs>>

\* The notifications published so far (delivery is at-least-once: every one
\* of them can arrive again at any time).
Published == 2..srcHistory

\* Variant: a resolution that fetches every added message.
GetMessagesSinceHistoryUncapped(historyId, maxMessages, stale, lost) ==
  IF stale
    THEN [messages |-> <<>>, latestHistoryId |-> Null]
    ELSE
      LET messageIds == SelectSeq([k \in Arrived |-> k],
                                  LAMBDA m : HistoryOf(m) > historyId)
          messages == SelectSeq(messageIds,
                        LAMBDA m : m \notin lost
                                   /\ IsPrimaryInboxMessage(content[m]))
      IN  [messages |-> messages, latestHistoryId |-> srcHistory]

\* gmail.ts:75-121, the paths that return: the 404 of a cursor the source no
\* longer resolves (stale), else the messages added since historyId, capped,
\* fetched (lost: the ids whose fetch failed) and filtered to the primary
\* inbox.
GetMessagesSinceHistory(historyId, maxMessages, stale, lost) ==
  IF stale
    THEN [messages |-> <<>>, latestHistoryId |-> Null]
    ELSE
      LET messageIds == SelectSeq([k \in Arrived |-> k],
                                  LAMBDA m : HistoryOf(m) > historyId)
          limitedIds == Take(messageIds, maxMessages)
          messages == SelectSeq(limitedIds,
                        LAMBDA m : m \notin lost
                                   /\ IsPrimaryInboxMessage(content[m]))
      IN  [messages |-> messages, latestHistoryId |-> srcHistory]

\* gmail.ts:142-165: newest first, over-fetched, filtered, cut at maxResults.
GetRecentMessages(maxResults, lost) ==
  LET n == Len(content)
      listed == Take([k \in Arrived |-> n + 1 - k], maxResults * 2)
      primary == SelectSeq(listed,
                   LAMBDA m : m \notin lost
                              /\ IsPrimaryInboxMessage(content[m]))
  IN  Take(primary, maxResults)

\* Variant: a slice that takes everything from i on.
BatchRest(items, i, size) ==
  {items[k] : k \in i..Len(items)}

\* route.ts:16-28: the slice processInBatches awaits together.
Batch(items, i, size) ==
  {items[k] : k \in i..Min(i + size - 1, Len(items))}

\* Variant: a call that answers with what it read whether or not it failed.
ClassifyEmailKeepsReading(reading, apiOk) == reading

\* claude.ts:100-166: the classification a call returns: the classifier's
\* reading, or the default the catch block answers with.
ClassifyEmail(reading, apiOk) ==
  IF apiOk THEN reading ELSE FailedClassification

\* What one classification promise settles to: fulfilled with what
\* classifyEmail returned, or rejected (a throw outside its try block).
ClassifyResults ==
  {[status |-> "rejected", c |-> FailedClassification]}
  \cup {[status |-> "fulfilled", c |-> ClassifyEmail(reading, apiOk)] :
          reading \in Readings, apiOk \in BOOLEAN}

\* The calendar takes new events while it has room for them.
CalendarOutcomes == IF events < MaxEvents THEN {TRUE, FALSE} ELSE {FALSE}

\* ------------------------------------------------- webhook POST (route.ts)
WebhookPayloads ==
  {[kind |-> k, emailAddress |-> "none", historyId |-> Null] :
     k \in {"unparsable", "nodata", "garbled"}}
  \cup {[kind |-> "push", emailAddress |-> e, historyId |-> h] :
          e \in {UserEmail, "stranger@x.com"}, h \in Published}

\* Variant: a handler that persists only what the resolution returned.
NewHistoryIdResolvedOnly(run) == run.latestHistoryId

\* Variant: a handler that persists the historyId of its notification.
NewHistoryIdFromNotification(run) == run.pushHistoryId

\* route.ts:86: the cursor the run persists.
NewHistoryId(run) ==
  IF TruthyString(run.latestHistoryId)
    THEN run.latestHistoryId
    ELSE run.pushHistoryId

\* Variant: a handler that does not look the account up.
WebhookGateAnyAccount(tokenOk, payload, accessToken) ==
  IF ~tokenOk THEN [status |-> 403, body |-> "Invalid token"]
  ELSE IF payload.kind = "unparsable"
    THEN [status |-> 200, body |-> "error_logged"]
  ELSE IF payload.kind = "nodata"
    THEN [status |-> 400, body |-> "Invalid payload"]
  ELSE IF payload.kind = "garbled"
    THEN [status |-> 200, body |-> "error_logged"]
  ELSE IF ~settings.enabled THEN [status |-> 200, body |-> "ok"]
  ELSE IF ~accessToken THEN [status |-> 200, body |-> "ok"]
  ELSE [status |-> 0, body |-> "pass"]

\* route.ts:32-75: what the handler answers before it touches the source,
\* or "pass".
WebhookGate(tokenOk, payload, accessToken) ==
  IF ~tokenOk THEN [status |-> 403, body |-> "Invalid token"]
  ELSE IF payload.kind = "unparsable"
    THEN [status |-> 200, body |-> "error_logged"]
  ELSE IF payload.kind = "nodata"
    THEN [status |-> 400, body |-> "Invalid payload"]
  ELSE IF payload.kind = "garbled"
    THEN [status |-> 200, body |-> "error_logged"]
  ELSE IF payload.emailAddress # UserEmail \/ ~user.googleAccessToken
    THEN [status |-> 200, body |-> "ok"]
  ELSE IF ~settings.enabled THEN [status |-> 200, body |-> "ok"]
  ELSE IF ~accessToken THEN [status |-> 200, body |-> "ok"]
  ELSE [status |-> 0, body |-> "pass"]

\* Variant: a handler that goes on to classify without the cursor write.
CursorNotPersisted(run) == [row |-> user, run |-> run]

\* route.ts:86-94: the users row after the run's cursor write, and the run
\* that has made it.
PersistCursor(run) ==
  [row |-> [user EXCEPT !.gmailHistoryId = NewHistoryId(run)],
   run |-> [run EXCEPT !.wrote = TRUE]]

\* route.ts:30-83: verification token, payload, account row, settings, token,
\* then the resolution of the changes since the stored cursor.
WebhookPOST(r) ==
  /\ Quiet
  /\ Free(r)
  /\ started < MaxStarts
  /\ started' = started + 1
  /\ \E tokenOk \in BOOLEAN, payload \in WebhookPayloads,
        accessToken \in BOOLEAN :
       LET run == [Started("webhook", FALSE) EXCEPT
                     !.tokenOk = tokenOk,
                     !.emailAddress = IF tokenOk THEN payload.emailAddress
                                                 ELSE "none"]
           gate == WebhookGate(tokenOk, payload, accessToken)
           historyId == IF TruthyString(user.gmailHistoryId)
                          THEN user.gmailHistoryId
                          ELSE payload.historyId
       IN  IF gate.body # "pass"
             THEN Upd(r, Respond(run, gate.status, gate.body))
             ELSE
               \/ Upd(r, SourceFailed(
                           [run EXCEPT !.pushHistoryId = payload.historyId,
                                       !.historyId = historyId],
                           200, "error_logged"))
               \/ \E stale \in BOOLEAN, lost \in SUBSET Arrived :
                    LET got == GetMessagesSinceHistory(
                                 historyId, MAX_HISTORY_MESSAGES, stale, lost)
                    IN  /\ stale => historyId < srcHistory
                        /\ Upd(r, [run EXCEPT
                              !.pc = "advance",
                              !.rowRead = user,
                              !.pushHistoryId = payload.historyId,
                              !.historyId = historyId,
                              !.messages = got.messages,
                              !.latestHistoryId = got.latestHistoryId])
  /\ UNCHANGED <<srcHistory, content, user, settings, processedEmails,
                 subscriptions, events, accounts, batchSize>>

\* route.ts:86-154, 278-287: persist the cursor; stop if nothing was
\* resolved; drop promotional messages, batch-lookup the ledger, drop the
\* processed ones.  A throw of either query ends the run in the outer catch.
WebhookAdvance(r) ==
  /\ Quiet
  /\ runs[r].pc = "advance"
  /\ \E dbOk \in BOOLEAN, lookupOk \in BOOLEAN :
       LET run == PersistCursor(runs[r]).run
           nonPromotionalMessages ==
             SelectSeq(run.messages,
                       LAMBDA m : ~IsPromotionalMessage(content[m]))
           messagesToProcess ==
             SelectSeq(nonPromotionalMessages,
                       LAMBDA m : ProcessedFor(m) = {})
           counted == [run EXCEPT
               !.pushHistoryId = Null, !.historyId = Null,
               !.latestHistoryId = Null, !.messages = <<>>,
               !.rowRead = Null,
               !.skippedCount = Len(run.messages) - Len(messagesToProcess),
               !.item = [m \in Msgs |->
                  IF m \in Range(nonPromotionalMessages)
                       \ Range(messagesToProcess)
                    THEN "skipped" ELSE @[m]]]
       IN  IF ~dbOk
             THEN /\ Upd(r, Respond(runs[r], 200, "error_logged"))
                  /\ UNCHANGED user
             ELSE /\ user' = PersistCursor(runs[r]).row
                  /\ Upd(r, IF Len(run.messages) = 0
                              THEN Respond(run, 200, "ok")
                            ELSE IF ~lookupOk
                              THEN Respond(run, 200, "error_logged")
                            ELSE IF Len(messagesToProcess) = 0
                              THEN Respond(counted, 200, "ok")
                              ELSE [counted EXCEPT
                                      !.pc = "classify",
                                      !.todo = messagesToProcess,
                                      !.i = 1])
  /\ UNCHANGED <<srcHistory, content, settings, processedEmails,
                 subscriptions, events, accounts, batchSize, started>>

\* The items of the batch that starts at run.i begin their processor.
StartBatch(run) ==
  [run EXCEPT !.item = [m \in Msgs |->
     IF m \in Batch(run.todo, run.i, batchSize) THEN "ins" ELSE @[m]]]

\* Variant: one rejected classification discards the whole run's results
\* (Promise.all in place of Promise.allSettled).
FulfilledAllOrNone(todo, result) ==
  IF \E k \in 1..Len(todo) : result[todo[k]].status # "fulfilled"
    THEN <<>> ELSE todo

\* route.ts:177-190: the items whose classification promise was fulfilled.
Fulfilled(todo, result) ==
  SelectSeq(todo, LAMBDA m : result[m].status = "fulfilled")

\* route.ts:163-194: one batch of classifier calls settles; after the last
\* batch the rejections are counted and the fulfilled results go to the
\* second processInBatches.
WebhookClassify(r) ==
  /\ runs[r].pc = "classify"
  /\ LET run == runs[r]
         batch == Batch(run.todo, run.i, batchSize)
     IN  \E settled \in [batch -> ClassifyResults] :
           LET result == [m \in Msgs |->
                            IF m \in batch THEN settled[m]
                                           ELSE run.result[m]]
               after == [run EXCEPT
                  !.result = result,
                  !.called = @ \cup batch,
                  !.item = [m \in Msgs |->
                     IF m \in batch /\ settled[m].status = "rejected"
                       THEN "rejected" ELSE @[m]],
                  !.i = @ + batchSize]
               successfulClassifications ==
                 Fulfilled(run.todo, result)
               counted == [after EXCEPT
                  !.errorCount = Len(run.todo) - Len(successfulClassifications),
                  !.todo = successfulClassifications,
                  !.i = 1]
           IN  Upd(r, IF after.i <= Len(run.todo) THEN after
                      ELSE IF Len(successfulClassifications) = 0
                        THEN Respond(counted, 200, "ok")
                        ELSE StartBatch([counted EXCEPT !.pc = "persist"]))
  /\ UNCHANGED <<srcHistory, content, user, settings, processedEmails,
                 subscriptions, events, accounts, batchSize, started>>

\* route.ts:22-27 and 273-277: when every item of the batch has settled the
\* next batch starts, and after the last one the handler answers.
SettleBatch(run) ==
  LET batch == Batch(run.todo, run.i, batchSize)
  IN  IF \E m \in batch : run.item[m] \notin Settled THEN run
      ELSE IF run.i + batchSize > Len(run.todo)
        THEN Respond(run, 200, "ok")
        ELSE StartBatch([run EXCEPT !.i = @ + batchSize])

\* route.ts:201-211, 263-269: the ledger INSERT of one item.
WebhookInsertProcessed(r, m) ==
  /\ Quiet
  /\ runs[r].pc = "persist"
  /\ runs[r].item[m] = "ins"
  /\ \E dbOk \in BOOLEAN :
       LET run == runs[r]
           c == run.result[m].c
       IN  IF ~dbOk \/ UniqueViolation(m)
             THEN /\ UNCHANGED processedEmails
                  /\ Upd(r, SettleBatch([run EXCEPT
                               !.errorCount = @ + 1,
                               !.item[m] = IF dbOk THEN "duplicate"
                                                    ELSE "ledgerFailed",
                               !.result[m] = NoResult]))
             ELSE /\ processedEmails' = processedEmails (+)
                       SetToBag({ProcessedRow(m, c.is_subscription)})
                  /\ LET done == [run EXCEPT !.processedCount = @ + 1]
                     IN  Upd(r, IF Qualifies(c)
                                  THEN [done EXCEPT !.item[m] = "sub"]
                                  ELSE SettleBatch(
                                         [done EXCEPT !.item[m] = "recorded",
                                                      !.result[m] = NoResult]))
  /\ UNCHANGED <<srcHistory, content, user, settings, subscriptions, events,
                 accounts, batchSize, started>>

\* route.ts:212-254, 263-269 with part_009:12-57: the end date, the reminder
\* and the subscriptions INSERT of one item.
WebhookInsertSubscription(r, m) ==
  /\ Quiet
  /\ runs[r].pc = "persist"
  /\ runs[r].item[m] = "sub"
  /\ \E now \in Clock, calendarOk \in CalendarOutcomes, dbOk \in BOOLEAN :
       LET run == runs[r]
           endDate == ComputeEndDate(run.result[m].c, content[m].date)
           calendarEventId ==
             CreateReminder(endDate, settings.reminderDaysBefore, now,
                            calendarOk, events + 1)
           reminded == [run EXCEPT !.result[m] = NoResult]
       IN  /\ events' = IF ReminderInserted(endDate,
                                            settings.reminderDaysBefore,
                                            now, calendarOk)
                           THEN events + 1 ELSE events
           /\ IF ~dbOk
                THEN /\ UNCHANGED subscriptions
                     /\ Upd(r, SettleBatch([reminded EXCEPT
                                  !.errorCount = @ + 1,
                                  !.item[m] = "subFailed"]))
                ELSE /\ subscriptions' = subscriptions (+)
                          SetToBag({SubscriptionRow(m, run.result[m].c,
                                     endDate, calendarEventId)})
                     /\ Upd(r, SettleBatch([reminded EXCEPT
                                  !.subscriptionCount = @ + 1,
                                  !.item[m] = "created"]))
  /\ UNCHANGED <<srcHistory, content, user, settings, processedEmails,
                 accounts, batchSize, started>>

\* ------------------------------------- manual sync POST (part_000:268-476)
\* Variant: a loop without the per-message catch: a failed write ends the
\* request in the outer handler.
ManualSyncNextAbort(run) ==
  IF \E m \in Msgs : run.item[m] \in {"ledgerFailed", "duplicate", "subFailed"}
    THEN Respond(run, 500, "Failed to sync emails")
  ELSE IF run.i = Len(run.todo)
    THEN Respond(run, 200, "success")
    ELSE [run EXCEPT !.i = @ + 1, !.step = "chk"]

\* The loop moves to the next message; after the last one the handler
\* answers with the counts (part_000:443-461).
ManualSyncNext(run) ==
  IF run.i = Len(run.todo)
    THEN Respond(run, 200, "success")
    ELSE [run EXCEPT !.i = @ + 1, !.step = "chk"]

\* part_000:268-317: session, account row, settings, token, then the recency
\* listing.
ManualSyncPOST(r) ==
  /\ Quiet
  /\ Free(r)
  /\ started < MaxStarts
  /\ started' = started + 1
  /\ LET run == Started("manual", FALSE)
     IN  \/ Upd(r, Respond(run, 401, "Unauthorized"))
         \/ Upd(r, Respond(run, 404, "User not found"))
         \/ Upd(r, Respond(run, 401, "No valid access token"))
         \/ Upd(r, Respond(run, 500, "Failed to sync emails"))
         \/ Upd(r, SourceFailed(run, 500, "Failed to sync emails"))
         \/ \E lost \in SUBSET Arrived :
              LET messages == GetRecentMessages(MANUAL_SYNC_LIMIT, lost)
              IN  Upd(r, IF Len(messages) = 0
                           THEN Respond(run, 200, "success")
                           ELSE [run EXCEPT !.pc = "loop",
                                            !.messages = messages,
                                            !.todo = messages,
                                            !.i = 1, !.step = "chk"])
  /\ UNCHANGED <<srcHistory, content, user, settings, processedEmails,
                 subscriptions, events, accounts, batchSize>>

\* part_000:324-356, 434-440: the ledger lookup of the current message and,
\* when it has no row, its classification.
ManualSyncCheck(r) ==
  /\ Quiet
  /\ runs[r].pc = "loop"
  /\ runs[r].mode = "manual"
  /\ runs[r].step = "chk"
  /\ LET run == runs[r]
         m == run.todo[run.i]
     IN  IF ProcessedFor(m) # {}
           THEN Upd(r, ManualSyncNext([run EXCEPT
                         !.skippedCount = @ + 1,
                         !.item[m] = "skipped"]))
           ELSE \E settled \in ClassifyResults :
                  LET called == [run EXCEPT !.called = @ \cup {m}]
                  IN  Upd(r, IF settled.status = "rejected"
                               THEN ManualSyncNext([called EXCEPT
                                      !.errorCount = @ + 1,
                                      !.item[m] = "rejected"])
                               ELSE [called EXCEPT
                                      !.result[m] = settled,
                                      !.step = "ins",
                                      !.item[m] = "ins"])
  /\ UNCHANGED <<srcHistory, content, user, settings, processedEmails,
                 subscriptions, events, accounts, batchSize, started>>

\* part_000:358-382, 429-440: the ledger INSERT, the confidence gate and the
\* lookup of a subscription with the same subject.
ManualSyncInsertProcessed(r) ==
  /\ Quiet
  /\ runs[r].pc = "loop"
  /\ runs[r].mode = "manual"
  /\ runs[r].step = "ins"
  /\ \E dbOk \in BOOLEAN :
       LET run == runs[r]
           m == run.todo[run.i]
           c == run.result[m].c
       IN  IF ~dbOk \/ UniqueViolation(m)
             THEN /\ UNCHANGED processedEmails
                  /\ Upd(r, ManualSyncNext([run EXCEPT
                               !.errorCount = @ + 1,
                               !.item[m] = IF dbOk THEN "duplicate"
                                                    ELSE "ledgerFailed",
                               !.result[m] = NoResult]))
             ELSE /\ processedEmails' = processedEmails (+)
                       SetToBag({ProcessedRow(m, c.is_subscription)})
                  /\ LET done == [run EXCEPT !.processedCount = @ + 1]
                     IN  Upd(r,
                           IF ~Qualifies(c)
                             THEN ManualSyncNext(
                                    [done EXCEPT !.item[m] = "recorded",
                                                      !.result[m] = NoResult])
                           ELSE IF SubscriptionFor(content[m].subject) # {}
                             THEN ManualSyncNext([done EXCEPT
                                    !.skippedCount = @ + 1,
                                    !.item[m] = "exists",
                                    !.result[m] = NoResult])
                             ELSE [done EXCEPT !.step = "sub",
                                               !.item[m] = "sub"])
  /\ UNCHANGED <<srcHistory, content, user, settings, subscriptions, events,
                 accounts, batchSize, started>>

\* part_000:384-428, 434-440 with part_009:12-57: the end date, the reminder
\* and the subscriptions INSERT.
ManualSyncInsertSubscription(r) ==
  /\ Quiet
  /\ runs[r].pc = "loop"
  /\ runs[r].mode = "manual"
  /\ runs[r].step = "sub"
  /\ \E now \in Clock, calendarOk \in CalendarOutcomes, dbOk \in BOOLEAN :
       LET run == runs[r]
           m == run.todo[run.i]
           endDate == ComputeEndDate(run.result[m].c, content[m].date)
           calendarEventId ==
             CreateReminder(endDate, settings.reminderDaysBefore, now,
                            calendarOk, events + 1)
           reminded == [run EXCEPT !.result[m] = NoResult]
       IN  /\ events' = IF ReminderInserted(endDate,
                                            settings.reminderDaysBefore,
                                            now, calendarOk)
                           THEN events + 1 ELSE events
           /\ IF ~dbOk
                THEN /\ UNCHANGED subscriptions
                     /\ Upd(r, ManualSyncNext([reminded EXCEPT
                                  !.errorCount = @ + 1,
                                  !.item[m] = "subFailed"]))
                ELSE /\ subscriptions' = subscriptions (+)
                          SetToBag({SubscriptionRow(m, run.result[m].c,
                                     endDate, calendarEventId)})
                     /\ Upd(r, ManualSyncNext([reminded EXCEPT
                                  !.subscriptionCount = @ + 1,
                                  !.item[m] = "created"]))
  /\ UNCHANGED <<srcHistory, content, user, settings, processedEmails,
                 accounts, batchSize, started>>

\* ----------------------------- diagnostic scan GET (scan-recent/route.ts)
\* The loop moves to the next message; after the last one the handler
\* answers (scan-recent:155).
ScanRecentNext(run) ==
  IF run.i = Len(run.todo)
    THEN Respond(run, 200, "results")
    ELSE [run EXCEPT !.i = @ + 1, !.step = "chk"]

\* scan-recent:87-103 and 145-152: the confidence gate and the lookup of a
\* subscription with the same subject.
ScanRecentGate(run, m) ==
  IF ~Qualifies(run.result[m].c)
    THEN ScanRecentNext([run EXCEPT !.item[m] = "recorded",
                                    !.result[m] = NoResult])
  ELSE IF SubscriptionFor(content[m].subject) # {}
    THEN ScanRecentNext([run EXCEPT !.item[m] = "exists",
                                    !.result[m] = NoResult])
    ELSE [run EXCEPT !.step = "sub", !.item[m] = "sub"]

\* scan-recent:11-47: the secret, the parameters, the account row, the token,
\* then the recency listing.
ScanRecentGET(r) ==
  /\ Quiet
  /\ Free(r)
  /\ started < MaxStarts
  /\ started' = started + 1
  /\ \E force \in BOOLEAN :
       LET run == Started("scan", force)
       IN  \/ Upd(r, Respond(run, 401, "Unauthorized"))
           \/ Upd(r, Respond(run, 400, "?email= required"))
           \/ Upd(r, Respond(run, 404, "User not found"))
           \/ Upd(r, Respond(run, 401, "No valid token"))
           \/ Upd(r, Respond(run, 500, "unhandled"))
           \/ Upd(r, SourceFailed(run, 500, "unhandled"))
           \/ \E count \in {1, SCAN_DEFAULT_COUNT}, lost \in SUBSET Arrived :
                LET messages == GetRecentMessages(count, lost)
                IN  Upd(r, IF Len(messages) = 0
                             THEN Respond(run, 200, "results")
                             ELSE [run EXCEPT !.pc = "loop",
                                              !.messages = messages,
                                              !.todo = messages,
                                              !.i = 1, !.step = "chk"])
  /\ UNCHANGED <<srcHistory, content, user, settings, processedEmails,
                 subscriptions, events, accounts, batchSize>>

\* scan-recent:51-76 (and 87-103 when the ledger INSERT is skipped): the
\* ledger lookup of the current message, the classification, and for a
\* message that already has a row the gate and the subject lookup.
ScanRecentCheck(r) ==
  /\ Quiet
  /\ runs[r].pc = "loop"
  /\ runs[r].mode = "scan"
  /\ runs[r].step = "chk"
  /\ LET run == runs[r]
         m == run.todo[run.i]
         existing == ProcessedFor(m) # {}
     IN  IF existing /\ ~run.force
           THEN Upd(r, ScanRecentNext([run EXCEPT !.item[m] = "skipped"]))
           ELSE \E settled \in ClassifyResults :
                  LET called == [run EXCEPT
                                   !.called = @ \cup {m},
                                   !.result[m] = settled]
                  IN  Upd(r, IF settled.status = "rejected"
                               THEN Respond([called EXCEPT
                                               !.item[m] = "rejected",
                                               !.result[m] = NoResult],
                                            500, "unhandled")
                             ELSE IF ~existing
                               THEN [called EXCEPT !.step = "ins",
                                                   !.item[m] = "ins"]
                               ELSE ScanRecentGate(called, m))
  /\ UNCHANGED <<srcHistory, content, user, settings, processedEmails,
                 subscriptions, events, accounts, batchSize, started>>

\* scan-recent:78-103, 145-152: the ledger INSERT, the gate and the subject
\* lookup.
ScanRecentInsertProcessed(r) ==
  /\ Quiet
  /\ runs[r].pc = "loop"
  /\ runs[r].mode = "scan"
  /\ runs[r].step = "ins"
  /\ \E dbOk \in BOOLEAN :
       LET run == runs[r]
           m == run.todo[run.i]
           c == run.result[m].c
       IN  IF ~dbOk \/ UniqueViolation(m)
             THEN /\ UNCHANGED processedEmails
                  /\ Upd(r, Respond([run EXCEPT !.item[m] = IF dbOk THEN "duplicate"
                                                    ELSE "ledgerFailed",
                               !.result[m] = NoResult],
                                    500, "unhandled"))
             ELSE /\ processedEmails' = processedEmails (+)
                       SetToBag({ProcessedRow(m, c.is_subscription)})
                  /\ Upd(r, ScanRecentGate(run, m))
  /\ UNCHANGED <<srcHistory, content, user, settings, subscriptions, events,
                 accounts, batchSize, started>>

\* scan-recent:104-143 with part_009:12-57: the end date, the reminder and
\* the subscriptions INSERT.
ScanRecentInsertSubscription(r) ==
  /\ Quiet
  /\ runs[r].pc = "loop"
  /\ runs[r].mode = "scan"
  /\ runs[r].step = "sub"
  /\ \E now \in Clock, calendarOk \in CalendarOutcomes, dbOk \in BOOLEAN :
       LET run == runs[r]
           m == run.todo[run.i]
           endDate == ComputeEndDate(run.result[m].c, content[m].date)
           calendarEventId ==
             CreateReminder(endDate, settings.reminderDaysBefore, now,
                            calendarOk, events + 1)
           reminded == [run EXCEPT !.result[m] = NoResult]
       IN  /\ events' = IF ReminderInserted(endDate,
                                            settings.reminderDaysBefore,
                                            now, calendarOk)
                           THEN events + 1 ELSE events
           /\ IF ~dbOk
                THEN /\ UNCHANGED subscriptions
                     /\ Upd(r, Respond([reminded EXCEPT
                                          !.item[m] = "subFailed"],
                                       500, "unhandled"))
                ELSE /\ subscriptions' = subscriptions (+)
                          SetToBag({SubscriptionRow(m, run.result[m].c,
                                     endDate, calendarEventId)})
                     /\ Upd(r, ScanRecentNext([reminded EXCEPT
                                  !.item[m] = "created"]))
  /\ UNCHANGED <<srcHistory, content, user, settings, processedEmails,
                 accounts, batchSize, started>>

\* The response has been sent; the slot is free for the next invocation.
Finish(r) ==
  /\ runs[r].pc = "done"
  /\ Upd(r, IdleRun)
  /\ UNCHANGED <<srcHistory, content, user, settings, processedEmails,
                 subscriptions, events, accounts, batchSize, started>>

\* ------------------------------------------------------- specification
InitTables ==
  /\ srcHistory = 1
  /\ content = <<>>
  /\ user = [gmailHistoryId |-> 1, googleAccessToken |-> TRUE]
  /\ settings = [enabled |-> TRUE,
                 reminderDaysBefore |-> DEFAULT_REMINDER_DAYS]
  /\ processedEmails = EmptyBag
  /\ subscriptions = EmptyBag
  /\ events = 0
  /\ accounts = <<>>
  /\ started = 0
  /\ runs = [r \in Runs |-> IdleRun]

Init ==
  /\ InitTables
  /\ batchSize = BATCH_SIZE

Next ==
  \/ Deliver
  \/ \E r \in Runs : WebhookPOST(r)
  \/ \E r \in Runs : WebhookAdvance(r)
  \/ \E r \in Runs : WebhookClassify(r)
  \/ \E r \in Runs, m \in Msgs : WebhookInsertProcessed(r, m)
  \/ \E r \in Runs, m \in Msgs : WebhookInsertSubscription(r, m)
  \/ \E r \in Runs : ManualSyncPOST(r)
  \/ \E r \in Runs : ManualSyncCheck(r)
  \/ \E r \in Runs : ManualSyncInsertProcessed(r)
  \/ \E r \in Runs : ManualSyncInsertSubscription(r)
  \/ \E r \in Runs : ScanRecentGET(r)
  \/ \E r \in Runs : ScanRecentCheck(r)
  \/ \E r \in Runs : ScanRecentInsertProcessed(r)
  \/ \E r \in Runs : ScanRecentInsertSubscription(r)
  \/ \E r \in Runs : Finish(r)

Spec == Init /\ [][Next]_vars

\* The webhook handler alone, with processInBatches run at batch size 1 as
\* well, so that the messages of one run fall into different batches.
BatchSizes == {1, BATCH_SIZE}

InitBatch ==
  /\ InitTables
  /\ batchSize \in BatchSizes

NextWebhook ==
  \/ Deliver
  \/ \E r \in Runs : WebhookPOST(r)
  \/ \E r \in Runs : WebhookAdvance(r)
  \/ \E r \in Runs : WebhookClassify(r)
  \/ \E r \in Runs, m \in Msgs : WebhookInsertProcessed(r, m)
  \/ \E r \in Runs, m \in Msgs : WebhookInsertSubscription(r, m)
  \/ \E r \in Runs : Finish(r)

SpecBatch == InitBatch /\ [][NextWebhook]_vars

\* The webhook handler with its invocations one after another: a
\* notification is handled only when no other invocation is in flight.
Serial == \A q \in Runs : runs[q].pc = "idle"

SerialWebhookPOST(r) == Serial /\ WebhookPOST(r)

NextSerial ==
  \/ Deliver
  \/ \E r \in Runs : SerialWebhookPOST(r)
  \/ \E r \in Runs : WebhookAdvance(r)
  \/ \E r \in Runs : WebhookClassify(r)
  \/ \E r \in Runs, m \in Msgs : WebhookInsertProcessed(r, m)
  \/ \E r \in Runs, m \in Msgs : WebhookInsertSubscription(r, m)
  \/ \E r \in Runs : Finish(r)

SpecSerial == Init /\ [][NextSerial]_vars

\* The account with monitoring switched off (settings.enabled = false): the
\* handlers that get past their first stage in that state.
InitDisabled ==
  /\ srcHistory = 1
  /\ content = <<>>
  /\ user = [gmailHistoryId |-> 1, googleAccessToken |-> TRUE]
  /\ settings = [enabled |-> FALSE,
                 reminderDaysBefore |-> DEFAULT_REMINDER_DAYS]
  /\ processedEmails = EmptyBag
  /\ subscriptions = EmptyBag
  /\ events = 0
  /\ accounts = <<>>
  /\ started = 0
  /\ runs = [r \in Runs |-> IdleRun]
  /\ batchSize = BATCH_SIZE

NextDisabled ==
  \/ Deliver
  \/ \E r \in Runs : WebhookPOST(r)
  \/ \E r \in Runs : ManualSyncPOST(r)
  \/ \E r \in Runs : ManualSyncCheck(r)
  \/ \E r \in Runs : ManualSyncInsertProcessed(r)
  \/ \E r \in Runs : ManualSyncInsertSubscription(r)
  \/ \E r \in Runs : ScanRecentGET(r)
  \/ \E r \in Runs : ScanRecentCheck(r)
  \/ \E r \in Runs : ScanRecentInsertProcessed(r)
  \/ \E r \in Runs : ScanRecentInsertSubscription(r)
  \/ \E r \in Runs : Finish(r)

SpecDisabled == InitDisabled /\ [][NextDisabled]_vars

\* ------------------------------------------------------ the token provider
\* Times are minutes.  The users row carries its token columns
\* (schema.ts:83-85); a token is a positive number, null is Null.
Minutes == 0..MaxNow

\* expires_in of a refresh response.
ExpiresIn == {1, EXPIRY_BUFFER_MS + 1}

ExpiryTimes == 0..(MaxNow + EXPIRY_BUFFER_MS + 1)

TokenRows ==
  [gmailHistoryId : {1},
   googleAccessToken : {Null, 1},
   googleRefreshToken : {Null, 1},
   googleTokenExpiry : {Null} \cup ExpiryTimes]

\* What the token endpoint does with a refresh request: fetch throws, the
\* response is not ok, or it delivers a new access token.
RefreshOutcomes ==
  {[kind |-> k, access_token |-> Null, expires_in |-> Null] :
     k \in {"network", "status"}}
  \cup {[kind |-> "ok", access_token |-> 2, expires_in |-> e] :
          e \in ExpiresIn}

\* token.ts:83-94
IsTokenValid(expiry, now) ==
  IF expiry = Null THEN FALSE ELSE expiry > now + EXPIRY_BUFFER_MS

\* token.ts:102-129: the token data, or null.
RefreshAccessToken(outcome) ==
  IF outcome.kind = "ok"
    THEN [ok |-> TRUE, access_token |-> outcome.access_token,
          expires_in |-> outcome.expires_in]
    ELSE [ok |-> FALSE, access_token |-> Null, expires_in |-> Null]

\* Variant: a provider that drops the stale token when the refresh fails.
RefreshFailedClearing(row) ==
  [token |-> Null, row |-> [row EXCEPT !.googleAccessToken = Null],
   refreshed |-> TRUE]

\* token.ts:49-52: the refresh returned null.
RefreshFailed(row) == [token |-> Null, row |-> row, refreshed |-> TRUE]

\* token.ts:25-75: the token returned, the users row afterwards, and whether
\* the refresh endpoint was called.
GetValidAccessToken(row, now, outcome, dbOk) ==
  IF ~TruthyString(row.googleAccessToken)
    THEN [token |-> Null, row |-> row, refreshed |-> FALSE]
  ELSE IF IsTokenValid(row.googleTokenExpiry, now)
    THEN [token |-> row.googleAccessToken, row |-> row, refreshed |-> FALSE]
  ELSE IF ~TruthyString(row.googleRefreshToken)
    THEN [token |-> Null, row |-> row, refreshed |-> FALSE]
  ELSE LET newTokenData == RefreshAccessToken(outcome)
           newExpiry == now + newTokenData.expires_in
       IN  IF ~newTokenData.ok
             THEN RefreshFailed(row)
             ELSE [token |-> newTokenData.access_token,
                   row |-> IF dbOk
                     THEN [row EXCEPT
                             !.googleAccessToken = newTokenData.access_token,
                             !.googleTokenExpiry = newExpiry]
                     ELSE row,
                   refreshed |-> TRUE]

\* A caller asks for the account's token; the call's inputs and results stay
\* in its slot until it returns.
GetValidAccessTokenCall(r) ==
  /\ Free(r)
  /\ \E now \in Minutes, outcome \in RefreshOutcomes, dbOk \in BOOLEAN :
       LET got == GetValidAccessToken(user, now, outcome, dbOk)
       IN  /\ user' = got.row
           /\ Upd(r, [pc |-> "done", mode |-> "token", before |-> user,
                      now |-> now, token |-> got.token,
                      refreshed |-> got.refreshed,
                      outcome |-> IF got.refreshed THEN outcome.kind
                                                   ELSE "none"])
  /\ UNCHANGED <<srcHistory, content, settings, processedEmails,
                 subscriptions, events, accounts, batchSize, started>>

InitToken ==
  /\ srcHistory = 1
  /\ content = <<>>
  /\ user \in TokenRows
  /\ settings = [enabled |-> TRUE,
                 reminderDaysBefore |-> DEFAULT_REMINDER_DAYS]
  /\ processedEmails = EmptyBag
  /\ subscriptions = EmptyBag
  /\ events = 0
  /\ accounts = <<>>
  /\ started = 0
  /\ runs = [r \in Runs |-> IdleRun]
  /\ batchSize = BATCH_SIZE

NextToken ==
  \/ \E r \in Runs : GetValidAccessTokenCall(r)
  \/ \E r \in Runs : Finish(r)

SpecToken == InitToken /\ [][NextToken]_vars

\* ------------------------------------------------------ the renewal sweep
\* Watch expiries are days; the sweep runs on day 0.
AccountIds == 1..MaxAccounts

\* A token expiry that is valid whenever the token is asked for.
FreshExpiry == MaxNow + EXPIRY_BUFFER_MS + 1

AccountRow(watchExpiry, accessToken, refreshToken, tokenExpiry) ==
  [gmailHistoryId |-> IF watchExpiry = Null THEN Null ELSE 1,
   gmailWatchExpiry |-> watchExpiry,
   googleAccessToken |-> accessToken,
   googleRefreshToken |-> refreshToken,
   googleTokenExpiry |-> tokenExpiry]

\* The kinds of users rows (schema.ts:78-91) the sweep can meet: never
\* watched; watched and not expiring; watched and expiring exactly one day
\* from now; expiring with a fresh token, with a
\* stale token and a refresh token, with a stale token and none, and with
\* no access token.
AccountRows ==
  {AccountRow(Null, 1, 1, FreshExpiry),
   AccountRow(5, 1, 1, FreshExpiry),
   AccountRow(1, 1, 1, FreshExpiry),
   AccountRow(0, 1, 1, FreshExpiry),
   AccountRow(0, 1, 1, 0),
   AccountRow(0, 1, Null, 0),
   AccountRow(0, Null, 1, 0)}

\* Variant: a query without the access-token condition.
UsersToRenewAnyCredential(now) ==
  LET all == [id \in AccountIds |-> [id |-> id, row |-> accounts[id]]]
  IN  SelectSeq(all, LAMBDA u :
        /\ u.row.gmailWatchExpiry # Null
        /\ u.row.gmailWatchExpiry < now + 1)

\* renew-watches/route.ts:15-24: the rows whose watch expires before
\* tomorrow and that hold an access token, as [id, row] in id order.
UsersToRenew(now) ==
  LET all == [id \in AccountIds |-> [id |-> id, row |-> accounts[id]]]
  IN  SelectSeq(all, LAMBDA u :
        /\ u.row.gmailWatchExpiry # Null
        /\ u.row.gmailWatchExpiry < now + 1
        /\ u.row.googleAccessToken # Null)

\* What gmail.users.watch and the users update of setupWatch do: both
\* succeed, the API call throws, or the update throws.
WatchOutcomes == {"ok", "api", "db"}

\* Variant: a registration that keeps a cursor the row already holds.
SetupWatchKeepsCursor(row, watch, now) ==
  IF watch = "ok"
    THEN [row EXCEPT !.gmailHistoryId = IF @ = Null THEN srcHistory ELSE @,
                     !.gmailWatchExpiry = now + 7]
    ELSE row

\* gmail.ts:39-61: the users row after setupWatch.
SetupWatch(row, watch, now) ==
  IF watch = "ok"
    THEN [row EXCEPT !.gmailHistoryId = srcHistory,
                     !.gmailWatchExpiry = now + 7]
    ELSE row

\* token.ts:58-66: the users row after the provider's write for the
\* snapshot it was given.
TokenWritten(row, snapshot, got) ==
  IF got.row = snapshot
    THEN row
    ELSE [row EXCEPT !.googleAccessToken = got.row.googleAccessToken,
                     !.googleTokenExpiry = got.row.googleTokenExpiry]

\* renew-watches/route.ts:31-44: the entry pushed for one account.
RenewalEntry(id, token, watch) ==
  IF token = Null
    THEN [userId |-> id, status |-> "failed",
          error |-> "Token refresh failed"]
  ELSE IF watch # "ok"
    THEN [userId |-> id, status |-> "failed", error |-> "Error"]
  ELSE [userId |-> id, status |-> "renewed", error |-> "none"]

\* Variant: a sweep that gives up at the first account that fails.
AfterAccountStopOnFailure(run, entry) ==
  [run EXCEPT !.results = Append(@, entry),
              !.i = IF entry.status = "failed"
                      THEN Len(run.usersToRenew) + 1
                      ELSE @ + 1]

\* renew-watches/route.ts:28-45: the entry is pushed and the loop goes on to
\* the next account, from the `continue`, the end of the try and the catch
\* alike.
AfterAccount(run, entry) ==
  [run EXCEPT !.results = Append(@, entry), !.i = @ + 1]

\* renew-watches/route.ts:47-50: the response; the slot keeps the ids the
\* query returned and what the sweep did.
RenewWatchesRespond(run) ==
  [pc |-> "done", mode |-> "cron", response |-> 200,
   ids |-> [k \in 1..Len(run.usersToRenew) |-> run.usersToRenew[k].id],
   results |-> run.results, attempts |-> run.attempts]

\* renew-watches/route.ts:7-26, 51-57: authorization, the query.  The job
\* runs daily (README.md:166): a sweep starts after the previous one answered.
RenewWatchesGET(r) ==
  /\ Serial
  /\ Free(r)
  /\ started < MaxStarts
  /\ started' = started + 1
  /\ \E authorized \in BOOLEAN, dbOk \in BOOLEAN :
       LET run == [pc |-> "sweep", mode |-> "cron",
                   usersToRenew |-> UsersToRenew(0), i |-> 1,
                   results |-> <<>>, attempts |-> <<>>]
           failed == [pc |-> "done", mode |-> "cron", response |-> 0,
                      ids |-> <<>>, results |-> <<>>, attempts |-> <<>>]
       IN  IF ~authorized
             THEN Upd(r, [failed EXCEPT !.response = 401])
           ELSE IF ~dbOk
             THEN Upd(r, [failed EXCEPT !.response = 500])
           ELSE IF run.usersToRenew = <<>>
             THEN Upd(r, RenewWatchesRespond(run))
           ELSE Upd(r, run)
  /\ UNCHANGED <<srcHistory, content, user, accounts, settings,
                 processedEmails, subscriptions, events, batchSize>>

\* renew-watches/route.ts:28-50: one iteration of the loop: the token, the
\* watch, the entry; after the last account, the response.
RenewWatchesAccount(r) ==
  /\ runs[r].pc = "sweep"
  /\ \E outcome \in RefreshOutcomes, dbOk \in BOOLEAN,
        watch \in WatchOutcomes :
       LET run == runs[r]
           u == run.usersToRenew[run.i]
           got == GetValidAccessToken(u.row, 0, outcome, dbOk)
           tokened == TokenWritten(accounts[u.id], u.row, got)
           watched == IF got.token = Null THEN tokened
                      ELSE SetupWatch(tokened, watch, 0)
           attempt == [userId |-> u.id, token |-> got.token,
                       watch |-> IF got.token = Null THEN "none" ELSE watch]
           entry == RenewalEntry(u.id, got.token, watch)
           next == [AfterAccount(run, entry) EXCEPT
                      !.attempts = Append(@, attempt)]
       IN  /\ accounts' = [accounts EXCEPT ![u.id] = watched]
           /\ IF next.i > Len(next.usersToRenew)
                THEN Upd(r, RenewWatchesRespond(next))
                ELSE Upd(r, next)
  /\ UNCHANGED <<srcHistory, content, user, settings, processedEmails,
                 subscriptions, events, batchSize, started>>

InitCron ==
  /\ srcHistory = 1
  /\ content = <<>>
  /\ user = [gmailHistoryId |-> 1, googleAccessToken |-> TRUE]
  /\ accounts \in [AccountIds -> AccountRows]
  /\ settings = [enabled |-> TRUE,
                 reminderDaysBefore |-> DEFAULT_REMINDER_DAYS]
  /\ processedEmails = EmptyBag
  /\ subscriptions = EmptyBag
  /\ events = 0
  /\ started = 0
  /\ runs = [r \in Runs |-> IdleRun]
  /\ batchSize = BATCH_SIZE

NextCron ==
  \/ \E r \in Runs : RenewWatchesGET(r)
  \/ \E r \in Runs : RenewWatchesAccount(r)
  \/ \E r \in Runs : Finish(r)

SpecCron == InitCron /\ [][NextCron]_vars

\* ------------------------------------------------------ the settings write
\* gmail.ts:63-73: the users row after stopWatch: cleared when both the
\* users.stop call and the update succeed, untouched when either throws.
StopWatch(row, watch) ==
  IF watch = "ok"
    THEN [row EXCEPT !.gmailHistoryId = Null, !.gmailWatchExpiry = Null]
    ELSE row

\* What a settings PUT carries: enabled (or not a boolean), and
\* reminderDaysBefore (or not a number).
SettingsBodies ==
  [enabled : {"true", "false", "absent"}, reminderDaysBefore : {Null, 0, 20}]

\* part_001:77-79: the stored reminderDaysBefore.
ClampReminderDays(n) ==
  IF n < 1 THEN 1 ELSE IF n > 14 THEN 14 ELSE n

\* part_001:69-83, 108: the settings row after the update.
SettingsUpdated(row, body) ==
  [enabled |-> IF body.enabled = "absent" THEN row.enabled
               ELSE body.enabled = "true",
   reminderDaysBefore |->
     IF body.reminderDaysBefore = Null THEN row.reminderDaysBefore
     ELSE ClampReminderDays(body.reminderDaysBefore)]

\* part_001:51-122: session, account row, the token and the watch when
\* enabled is given, the settings update, the response.  The slot keeps what
\* the request asked for and which calls it made.
SettingsPUT(r) ==
  /\ Free(r)
  /\ started < MaxStarts
  /\ started' = started + 1
  /\ \E session \in BOOLEAN, found \in BOOLEAN, body \in SettingsBodies,
        outcome \in RefreshOutcomes, dbOk \in BOOLEAN,
        watch \in WatchOutcomes, updateOk \in BOOLEAN :
       LET call == [pc |-> "done", mode |-> "settings", body |-> body,
                    token |-> Null, registered |-> FALSE,
                    deregistered |-> FALSE, watch |-> "none",
                    response |-> 0]
           got == GetValidAccessToken(user, 0, outcome, dbOk)
           asked == body.enabled # "absent"
           calls == asked /\ got.token # Null
           tokened == IF asked THEN got.row ELSE user
           watched == IF ~calls THEN tokened
                      ELSE IF body.enabled = "true"
                        THEN SetupWatch(tokened, watch, 0)
                      ELSE StopWatch(tokened, watch)
           made == [call EXCEPT
                      !.token = IF asked THEN got.token ELSE Null,
                      !.registered = calls /\ body.enabled = "true",
                      !.deregistered = calls /\ body.enabled = "false",
                      !.watch = IF calls THEN watch ELSE "none"]
       IN  IF ~session
             THEN /\ Upd(r, [call EXCEPT !.response = 401])
                  /\ UNCHANGED <<user, settings>>
           ELSE IF ~found
             THEN /\ Upd(r, [call EXCEPT !.response = 404])
                  /\ UNCHANGED <<user, settings>>
           ELSE /\ user' = watched
                /\ IF updateOk
                     THEN /\ settings' = SettingsUpdated(settings, body)
                          /\ Upd(r, [made EXCEPT !.response = 200])
                     ELSE /\ UNCHANGED settings
                          /\ Upd(r, [made EXCEPT !.response = 500])
  /\ UNCHANGED <<srcHistory, content, accounts, processedEmails,
                 subscriptions, events, batchSize>>

\* The account in each watch state (never watched, watched, expiring) with
\* each kind of token, monitoring enabled or not.
InitSettings ==
  /\ srcHistory = 1
  /\ content = <<>>
  /\ user \in {AccountRow(e, 1, t[1], t[2]) :
                 e \in {Null, 5, 0},
                 t \in {<<1, FreshExpiry>>, <<1, 0>>, <<Null, 0>>}}
  /\ accounts = <<>>
  /\ settings \in [enabled : BOOLEAN,
                   reminderDaysBefore : {DEFAULT_REMINDER_DAYS}]
  /\ processedEmails = EmptyBag
  /\ subscriptions = EmptyBag
  /\ events = 0
  /\ started = 0
  /\ runs = [r \in Runs |-> IdleRun]
  /\ batchSize = BATCH_SIZE

NextSettings ==
  \/ \E r \in Runs : SettingsPUT(r)
  \/ \E r \in Runs : Finish(r)

SpecSettings == InitSettings /\ [][NextSettings]_vars

\* ------------------------------------- the webhook beside the settings
\* part_001:51-122 for a body whose enabled is a boolean, on the account the
\* webhook serves: the token (accessToken: one was obtained), setupWatch or
\* stopWatch with its throw caught, then the settings update.
SettingsPUTEnabled ==
  /\ Quiet
  /\ started < MaxStarts
  /\ started' = started + 1
  /\ \E enabled \in BOOLEAN, accessToken \in BOOLEAN,
        watch \in WatchOutcomes, updateOk \in BOOLEAN :
       /\ user' = IF ~accessToken THEN user
                  ELSE IF enabled THEN SetupWatch(user, watch, 0)
                  ELSE StopWatch(user, watch)
       /\ settings' = IF updateOk THEN [settings EXCEPT !.enabled = enabled]
                                  ELSE settings
  /\ UNCHANGED <<srcHistory, content, accounts, processedEmails,
                 subscriptions, events, batchSize, runs>>

\* The watched account: its row carries the watch expiry beside the cursor.
InitLifecycle ==
  /\ srcHistory = 1
  /\ content = <<>>
  /\ user = [gmailHistoryId |-> 1, googleAccessToken |-> TRUE,
             gmailWatchExpiry |-> 5]
  /\ settings = [enabled |-> TRUE,
                 reminderDaysBefore |-> DEFAULT_REMINDER_DAYS]
  /\ processedEmails = EmptyBag
  /\ subscriptions = EmptyBag
  /\ events = 0
  /\ accounts = <<>>
  /\ started = 0
  /\ runs = [r \in Runs |-> IdleRun]
  /\ batchSize = BATCH_SIZE

NextLifecycle ==
  \/ Deliver
  \/ SettingsPUTEnabled
  \/ \E r \in Runs : WebhookPOST(r)
  \/ \E r \in Runs : WebhookAdvance(r)
  \/ \E r \in Runs : WebhookClassify(r)
  \/ \E r \in Runs, m \in Msgs : WebhookInsertProcessed(r, m)
  \/ \E r \in Runs, m \in Msgs : WebhookInsertSubscription(r, m)
  \/ \E r \in Runs : Finish(r)

SpecLifecycle == InitLifecycle /\ [][NextLifecycle]_vars

\* ------------------------------------------------ the labelled mailbox
\* The label sets Gmail files a message under: the primary inbox, the
\* promotions tab of the inbox, and outside the inbox.
AllLabelSets == {{INBOX}, {INBOX, CATEGORY_PROMOTIONS}, {}}

\* A message arrives under any of the label sets.
DeliverLabelled ==
  /\ Quiet
  /\ Len(content) < MaxMsgs
  /\ \E labelIds \in AllLabelSets :
       content' = Append(content, [subject |-> "s1", labelIds |-> labelIds,
                                   date |-> Len(content) + 1])
  /\ srcHistory' = srcHistory + 1
  /\ UNCHANGED <<user, settings, processedEmails, subscriptions, events,
                 accounts, batchSize, started, runs>>

SerialManualSyncPOST(r) == Serial /\ ManualSyncPOST(r)

SerialScanRecentGET(r) == Serial /\ ScanRecentGET(r)

\* The three handlers, one invocation after another, on the labelled mailbox.
NextLabels ==
  \/ DeliverLabelled
  \/ \E r \in Runs : SerialWebhookPOST(r)
  \/ \E r \in Runs : WebhookAdvance(r)
  \/ \E r \in Runs : WebhookClassify(r)
  \/ \E r \in Runs, m \in Msgs : WebhookInsertProcessed(r, m)
  \/ \E r \in Runs, m \in Msgs : WebhookInsertSubscription(r, m)
  \/ \E r \in Runs : SerialManualSyncPOST(r)
  \/ \E r \in Runs : ManualSyncCheck(r)
  \/ \E r \in Runs : ManualSyncInsertProcessed(r)
  \/ \E r \in Runs : ManualSyncInsertSubscription(r)
  \/ \E r \in Runs : SerialScanRecentGET(r)
  \/ \E r \in Runs : ScanRecentCheck(r)
  \/ \E r \in Runs : ScanRecentInsertProcessed(r)
  \/ \E r \in Runs : ScanRecentInsertSubscription(r)
  \/ \E r \in Runs : Finish(r)

SpecLabels == Init /\ [][NextLabels]_vars

\* ------------------------------------------- webhook beside manual sync
\* The two handlers that write the ledger before anything else, with their
\* invocations interleaved.
NextIngest ==
  \/ Deliver
  \/ \E r \in Runs : WebhookPOST(r)
  \/ \E r \in Runs : WebhookAdvance(r)
  \/ \E r \in Runs : WebhookClassify(r)
  \/ \E r \in Runs, m \in Msgs : WebhookInsertProcessed(r, m)
  \/ \E r \in Runs, m \in Msgs : WebhookInsertSubscription(r, m)
  \/ \E r \in Runs : ManualSyncPOST(r)
  \/ \E r \in Runs : ManualSyncCheck(r)
  \/ \E r \in Runs : ManualSyncInsertProcessed(r)
  \/ \E r \in Runs : ManualSyncInsertSubscription(r)
  \/ \E r \in Runs : Finish(r)

SpecIngest == Init /\ [][NextIngest]_vars

\* ------------------------------------------- the resolution of a burst
\* Messages arrive in bursts of about half the fetch limit, so that two
\* bursts between resolutions exceed it.
BurstSizes == {MAX_HISTORY_MESSAGES \div 2, MAX_HISTORY_MESSAGES \div 2 + 1}

DeliverBurst ==
  \E k \in BurstSizes :
    /\ Len(content) + k <= MaxBurst
    /\ content' = content \o [j \in 1..k |->
                     [subject |-> "s1", labelIds |-> {INBOX},
                      date |-> Len(content) + j]]
    /\ srcHistory' = srcHistory + k
    /\ UNCHANGED <<user, settings, processedEmails, subscriptions, events,
                   accounts, batchSize, started, runs>>

\* The messages whose fetch can fail: the oldest and the newest.
LostChoices ==
  {{}} \cup {{m} : m \in {1, Len(content)} \cap Arrived}

\* route.ts:81-94 with gmail.ts:75-125: the resolution from the stored cursor
\* and the cursor write, for the notification of the newest or of the oldest
\* message.  The slot keeps what the call started from, what the source had
\* added since, what it returned and what was persisted.
ResolveSinceHistory(r) ==
  /\ Free(r)
  /\ started < MaxStarts
  /\ srcHistory >= 2
  /\ started' = started + 1
  /\ \E pushHistoryId \in {2, srcHistory}, stale \in BOOLEAN,
        lost \in LostChoices :
       LET historyId == IF TruthyString(user.gmailHistoryId)
                          THEN user.gmailHistoryId
                          ELSE pushHistoryId
           got == GetMessagesSinceHistory(
                    historyId, MAX_HISTORY_MESSAGES, stale, lost)
           call == [pc |-> "done", mode |-> "history",
                    historyId |-> historyId,
                    pushHistoryId |-> pushHistoryId,
                    latestHistoryId |-> got.latestHistoryId,
                    added |-> {m \in Arrived : HistoryOf(m) > historyId},
                    lost |-> lost,
                    messages |-> got.messages]
       IN  /\ stale => historyId < srcHistory
           /\ user' = [user EXCEPT !.gmailHistoryId = NewHistoryId(call)]
           /\ Upd(r, call)
  /\ UNCHANGED <<srcHistory, content, settings, processedEmails,
                 subscriptions, events, accounts, batchSize>>

NextHistory ==
  \/ DeliverBurst
  \/ \E r \in Runs : ResolveSinceHistory(r)
  \/ \E r \in Runs : Finish(r)

SpecHistory == Init /\ [][NextHistory]_vars

\* ------------------------------------- the sweep beside the settings
\* renew-watches/route.ts:18-24: the condition of the sweep's query on one
\* users row.
DueForRenewal(row, now) ==
  /\ row.gmailWatchExpiry # Null
  /\ row.gmailWatchExpiry < now + 1
  /\ row.googleAccessToken # Null

\* renew-watches/route.ts:7-58 on the users table that holds the account's
\* row: authorization, the query, and for a selected row the token and
\* setupWatch with its throw caught.
RenewWatchesFor(authorized, queryOk, outcome, dbOk, watch) ==
  /\ \A r \in Runs : runs[r].pc = "idle"
  /\ IF ~authorized \/ ~queryOk \/ ~DueForRenewal(user, 0)
       THEN UNCHANGED user
       ELSE LET got == GetValidAccessToken(user, 0, outcome, dbOk)
            IN  user' = IF got.token = Null THEN got.row
                        ELSE SetupWatch(got.row, watch, 0)
  /\ UNCHANGED <<srcHistory, content, accounts, settings, processedEmails,
                 subscriptions, events, batchSize, started, runs>>

RenewWatchesSweep ==
  \E authorized \in BOOLEAN, queryOk \in BOOLEAN, outcome \in RefreshOutcomes,
     dbOk \in BOOLEAN, watch \in WatchOutcomes :
       RenewWatchesFor(authorized, queryOk, outcome, dbOk, watch)

\* A sweep in which nothing fails: the job is authorized, the database and
\* the token endpoint answer, and users.watch succeeds.
RenewWatchesSucceeds ==
  \E outcome \in {o \in RefreshOutcomes : o.kind = "ok"} :
       RenewWatchesFor(TRUE, TRUE, outcome, TRUE, "ok")

\* The account as the settings and the sweep find it: monitoring off and
\* never watched, or monitoring on with a watch that is active or
\* expiring; with each kind of token.
InitWatch ==
  /\ srcHistory = 1
  /\ content = <<>>
  /\ \E state \in {<<FALSE, Null>>, <<TRUE, 5>>, <<TRUE, 0>>},
        t \in {<<1, FreshExpiry>>, <<1, 0>>, <<Null, 0>>} :
       /\ settings = [enabled |-> state[1],
                      reminderDaysBefore |-> DEFAULT_REMINDER_DAYS]
       /\ user = AccountRow(state[2], 1, t[1], t[2])
  /\ accounts = <<>>
  /\ processedEmails = EmptyBag
  /\ subscriptions = EmptyBag
  /\ events = 0
  /\ started = 0
  /\ runs = [r \in Runs |-> IdleRun]
  /\ batchSize = BATCH_SIZE

NextWatch ==
  \/ \E r \in Runs : SettingsPUT(r)
  \/ RenewWatchesSweep
  \/ \E r \in Runs : Finish(r)

SpecWatch == InitWatch /\ [][NextWatch]_vars

\* The sweep keeps running (README.md:166): a sweep in which nothing fails
\* is not put off forever; and a request that has answered is finished.
SpecWatchFair ==
  /\ SpecWatch
  /\ WF_vars(RenewWatchesSucceeds)
  /\ WF_vars(\E r \in Runs : Finish(r))

\* ---------------------------------------------------- processInBatches
\* route.ts:16-28 with the classification processor of route.ts:163-175,
\* one promise at a time: the calls of a slice start together, each settles
\* on its own, and the loop goes on when Promise.allSettled has them all.
InFlightBatchSizes == {1, 2, BATCH_SIZE}

\* route.ts:21-23: the calls of the slice at i start.
ProcessInBatchesCall(r) ==
  /\ Free(r)
  /\ started < MaxStarts
  /\ started' = started + 1
  /\ \E n \in 1..MaxItems :
       LET items == [k \in 1..n |-> k]
       IN  Upd(r, [pc |-> "batch", mode |-> "batches", items |-> items,
                   i |-> 1, inflight |-> Batch(items, 1, batchSize),
                   results |-> [k \in 1..n |-> "pending"]])
  /\ UNCHANGED <<srcHistory, content, user, accounts, settings,
                 processedEmails, subscriptions, events, batchSize>>

\* route.ts:21-27: one call settles; when it was the last of its slice the
\* next slice starts, and after the last slice the results are returned.
ProcessorSettles(r) ==
  /\ runs[r].pc = "batch"
  /\ \E k \in runs[r].inflight, status \in {"fulfilled", "rejected"} :
       LET run == [runs[r] EXCEPT !.results[k] = status,
                                  !.inflight = @ \ {k}]
           i == run.i + batchSize
       IN  Upd(r, IF run.inflight # {} THEN run
                  ELSE IF i > Len(run.items)
                    THEN [pc |-> "done", mode |-> "batches",
                          items |-> run.items, results |-> run.results]
                    ELSE [run EXCEPT
                            !.i = i,
                            !.inflight = Batch(run.items, i, batchSize)])
  /\ UNCHANGED <<srcHistory, content, user, accounts, settings,
                 processedEmails, subscriptions, events, batchSize, started>>

InitInFlight ==
  /\ srcHistory = 1
  /\ content = <<>>
  /\ user = [gmailHistoryId |-> 1, googleAccessToken |-> TRUE]
  /\ accounts = <<>>
  /\ settings = [enabled |-> TRUE,
                 reminderDaysBefore |-> DEFAULT_REMINDER_DAYS]
  /\ processedEmails = EmptyBag
  /\ subscriptions = EmptyBag
  /\ events = 0
  /\ started = 0
  /\ runs = [r \in Runs |-> IdleRun]
  /\ batchSize \in InFlightBatchSizes

NextInFlight ==
  \/ \E r \in Runs : ProcessInBatchesCall(r)
  \/ \E r \in Runs : ProcessorSettles(r)
  \/ \E r \in Runs : Finish(r)

SpecInFlight == InitInFlight /\ [][NextInFlight]_vars

\* --------------------------------------------------------- the classifier
\* What the try block of classifyEmail meets (claude.ts:123-148):
\* messages.create throws, the first content block is not text, the text is
\* not JSON, or the text parses to a classification.
ClassifierOutcomes == {"throws", "not_text", "bad_json", "parsed"}

\* A caller classifies one message and applies the gate to the answer
\* (claude.ts:96-167, route.ts:211); the slot keeps what the model's reply
\* said, what the call returned and whether a subscription would follow.
ClassifyEmailCall(r) ==
  /\ Free(r)
  /\ \E outcome \in ClassifierOutcomes, reading \in Readings :
       LET classification == ClassifyEmail(reading, outcome = "parsed")
       IN  Upd(r, [pc |-> "done", mode |-> "classify",
                   outcome |-> outcome, reading |-> reading,
                   classification |-> classification,
                   materialize |-> Qualifies(classification)])
  /\ UNCHANGED <<srcHistory, content, user, accounts, settings,
                 processedEmails, subscriptions, events, batchSize, started>>

NextClassifier ==
  \/ \E r \in Runs : ClassifyEmailCall(r)
  \/ \E r \in Runs : Finish(r)

SpecClassifier == Init /\ [][NextClassifier]_vars

\* ------------------------------------------------- the reminder scheduler
\* The end dates and lead days createReminder is called with: end dates from
\* before the first day to after the last, leads within the range the
\* settings write stores (part_001:77-79).
ReminderEndDates == 0..(MaxClock + 3)

ReminderLeadDays == 1..3

\* part_009:12-57: one call of createReminder; the slot keeps its arguments,
\* the clock it read and what it returned.
CreateReminderCall(r) ==
  /\ Free(r)
  /\ \E endDate \in ReminderEndDates, reminderDaysBefore \in ReminderLeadDays,
        now \in Clock, calendarOk \in CalendarOutcomes :
       /\ events' = IF ReminderInserted(endDate, reminderDaysBefore, now,
                                        calendarOk)
                      THEN events + 1 ELSE events
       /\ Upd(r, [pc |-> "done", mode |-> "reminder",
                  endDate |-> endDate,
                  reminderDaysBefore |-> reminderDaysBefore,
                  now |-> now,
                  eventId |-> CreateReminder(endDate, reminderDaysBefore,
                                             now, calendarOk, events + 1)])
  /\ UNCHANGED <<srcHistory, content, user, accounts, settings,
                 processedEmails, subscriptions, batchSize, started>>

NextReminder ==
  \/ \E r \in Runs : CreateReminderCall(r)
  \/ \E r \in Runs : Finish(r)

SpecReminder == Init /\ [][NextReminder]_vars







\* ------------------------------------------------------------ properties
\* processed_emails rows for message m, counted with multiplicity.
ProcessedCopies(m) ==
  Rows([row \in ProcessedFor(m) |-> processedEmails[row]])

\* subscriptions rows with the subject, counted with multiplicity.
SubscriptionCopies(subject) ==
  Rows([row \in SubscriptionFor(subject) |-> subscriptions[row]])

\* This step is run r's subscriptions INSERT for message m.
Materialized(r, m) ==
  /\ runs[r].item[m] # "created"
  /\ runs'[r].item[m] = "created"

\* This step adds exactly the subscriptions row `row`.
Inserted(row) == subscriptions' = subscriptions (+) SetToBag({row})

\* C1, as stated: once a processed_emails row exists for a message, no run
\* that starts later (webhook, manual sync or scan) passes the message to
\* the classifier, and no message ever has a second row.
C1_NeverClassifiedAgain ==
  /\ \A r \in Runs : runs[r].called \cap runs[r].seen = {}
  /\ \A m \in Msgs : ProcessedCopies(m) <= 1

\* C1, amended: once a processed_emails row exists for a message, no run
\* that starts later and does not bypass the ledger lookup (every webhook
\* and manual-sync run, and a scan without force=true) passes the message to
\* the classifier; and no run, forced or not, adds a second row for it.
C1_NeverClassifiedAgainUnlessForced ==
  /\ \A r \in Runs :
       ~runs[r].force => runs[r].called \cap runs[r].seen = {}
  /\ \A m \in Msgs : ProcessedCopies(m) <= 1

\* A run that started after message m had its row has skipped m.
C1_Witness ==
  \E r \in Runs, m \in Msgs :
    /\ ~runs[r].force
    /\ m \in runs[r].seen
    /\ runs[r].item[m] = "skipped"
    /\ ProcessedCopies(m) = 1

\* C2, as stated: at most one subscriptions row exists per (account,
\* subject), also when two messages carry the same subject and both
\* classify as qualifying.
C2_OneSubscriptionPerSubject ==
  \A subject \in Subjects : SubscriptionCopies(subject) <= 1

\* C3, as stated: under any interleaving of webhook runs the stored
\* gmailHistoryId never moves to an older position.
C3_CursorNeverRollsBack ==
  [][user'.gmailHistoryId >= user.gmailHistoryId]_vars

\* C4: in every webhook run the cursor write precedes the run's first
\* classifier call: a run that has called the classifier has written the
\* cursor.
C4_AdvanceBeforeClassify ==
  \A r \in Runs :
    (runs[r].mode = "webhook" /\ runs[r].called # {}) => runs[r].wrote

\* A webhook run has written the cursor and then called the classifier.
C4_Witness ==
  \E r \in Runs :
    /\ runs[r].mode = "webhook"
    /\ runs[r].called # {}
    /\ runs[r].wrote
    /\ user.gmailHistoryId > 1

\* C5: at most one processed_emails row exists per message, also when two
\* overlapping runs both passed the ledger lookup for it: the later INSERT
\* fails.
C5_OneRecordPerMessage ==
  \A m \in Msgs : ProcessedCopies(m) <= 1

\* A run passed the lookup for m, and its INSERT then hit the row another
\* run had written in between.
C5_Witness ==
  \E r \in Runs, m \in Msgs :
    /\ m \in runs[r].called
    /\ runs[r].item[m] = "duplicate"
    /\ ProcessedCopies(m) = 1

\* C6, as stated: a notification that carries the valid token is answered
\* with a success status whatever happens inside the handler.
C6_AlwaysAcknowledged ==
  \A r \in Runs :
    (runs[r].mode = "webhook" /\ runs[r].pc = "done" /\ runs[r].tokenOk)
      => runs[r].response = 200

\* The webhook run r has answered after exactly one of its classifier calls,
\* for message M, was rejected and nothing else failed.
OnlyRejected(r, M) ==
  /\ runs[r].mode = "webhook"
  /\ runs[r].pc = "done"
  /\ runs[r].item[M] = "rejected"
  /\ \A m \in runs[r].called \ {M} :
       runs[r].item[m] \notin {"rejected", "ledgerFailed", "duplicate",
                               "subFailed"}

\* C7: in a webhook run whose classifier call throws for exactly one
\* message M and in which nothing else fails, every other candidate gets its
\* processed_emails row, and its subscriptions row where it qualifies; the
\* run writes nothing for M, and its error count is 1; whether or not M
\* shares a batch with the others.
C7_OneRejectionIsolated ==
  \A r \in Runs, M \in Msgs :
    OnlyRejected(r, M) =>
      /\ runs[r].errorCount = 1
      /\ runs[r].processedCount = Cardinality(runs[r].called) - 1
      /\ \A m \in runs[r].called \ {M} :
           /\ runs[r].item[m] \in {"recorded", "created"}
           /\ ProcessedCopies(m) = 1
           /\ runs[r].item[m] = "created"
                => \E row \in BagToSet(subscriptions) : row.message = m

\* A run over two messages in two batches: the first was rejected, the
\* second has its row.
C7_Witness ==
  \E r \in Runs :
    /\ batchSize = 1
    /\ OnlyRejected(r, 1)
    /\ runs[r].called = {1, 2}
    /\ runs[r].item[2] = "created"

\* C8: when a qualifying message's reminder is not created (the calendar
\* call fails, or createReminder declines), the subscriptions INSERT is
\* still made, and the row it adds has a null calendarEventId; in every
\* trigger mode.
C8_SubscriptionWithoutReminder ==
  [][\A r \in Runs, m \in Msgs :
       (/\ runs[r].item[m] = "sub"
        /\ runs'[r].item[m] # "sub"
        /\ events' = events)
       => \/ /\ runs'[r].item[m] = "created"
             /\ \E row \in BagToSet(subscriptions') :
                  /\ Inserted(row)
                  /\ row.message = m
                  /\ row.calendarEventId = Null
          \/ /\ runs'[r].item[m] = "subFailed"
             /\ UNCHANGED subscriptions]_vars

\* A subscriptions row stands without a reminder while the calendar holds
\* no event.
C8_Witness ==
  /\ events = 0
  /\ \E row \in BagToSet(subscriptions) : row.calendarEventId = Null

\* C9: a subscriptions row is made for a message only if its classification
\* has is_subscription true and confidence >= 0.70; once the message's
\* ledger row is written, a classification at or above 0.70 goes on to the
\* subscription (or meets an existing one with the subject) and one below
\* does not.
C9_ConfidenceGate ==
  [][\A r \in Runs, m \in Msgs :
       LET c == runs[r].result[m].c
           passes == c.is_subscription /\ c.confidence >= 70
       IN  /\ Materialized(r, m) => passes
           /\ (/\ runs[r].item[m] = "ins"
               /\ runs'[r].item[m] \in {"sub", "exists", "recorded"})
              => (passes <=> runs'[r].item[m] \in {"sub", "exists"})]_vars

\* A subscriptions row made from a classification of exactly 0.70.
C9_Witness ==
  \E row \in BagToSet(subscriptions) : row.confidence = 70

\* The end date the claim states for a classification of a message dated
\* `date`.
StatedEndDate(c, date) ==
  IF c.end_date # Null THEN c.end_date
  ELSE IF c.duration_days # Null THEN date + c.duration_days
  ELSE date + 14

\* C10, as stated: the end date of a new subscriptions row is the explicit
\* end date when one is given, else the detected date plus duration_days for
\* every non-null duration (0 included), else the detected date plus 14.
C10_EndDate ==
  [][\A r \in Runs, m \in Msgs :
       Materialized(r, m)
         => \E row \in BagToSet(subscriptions') :
              /\ Inserted(row)
              /\ row.endDate = StatedEndDate(runs[r].result[m].c,
                                             content[m].date)]_vars

\* This step is run r's cursor write and what follows it up to the ledger
\* lookup (route.ts:86-154).
Advances(r) ==
  /\ runs[r].mode = "webhook"
  /\ runs[r].pc = "advance"
  /\ runs'[r].pc # "advance"

\* C11: a resolution of a cursor the source no longer knows returns no
\* messages and a null latestHistoryId, without throwing; the webhook run
\* then stores the notification's historyId as the cursor and answers 200
\* "ok" (unless the UPDATE of the users row itself throws, which the handler
\* answers with 200 as well).
C11_StaleCursorFallsBack ==
  [][\A r \in Runs :
       /\ \A h \in 1..srcHistory, lost \in SUBSET Arrived :
            GetMessagesSinceHistory(h, MAX_HISTORY_MESSAGES, TRUE, lost)
              = [messages |-> <<>>, latestHistoryId |-> Null]
       /\ (Advances(r) /\ runs[r].latestHistoryId = Null)
          => /\ runs[r].messages = <<>>
             /\ runs'[r].pc = "done"
             /\ runs'[r].response = 200
             /\ \/ /\ runs'[r].body = "ok"
                   /\ runs'[r].wrote
                   /\ user'.gmailHistoryId = runs[r].pushHistoryId
                \/ /\ runs'[r].body = "error_logged"
                   /\ ~runs'[r].wrote
                   /\ UNCHANGED user]_vars

\* A webhook run whose resolution returned null has answered "ok", and the
\* stored cursor is the historyId of its notification.
C11_Witness ==
  \E r \in Runs :
    /\ runs[r].mode = "webhook"
    /\ runs[r].pc = "done"
    /\ runs[r].wrote
    /\ runs[r].latestHistoryId = Null
    /\ runs[r].pushHistoryId # Null
    /\ runs[r].body = "ok"
    /\ user.gmailHistoryId = runs[r].pushHistoryId

\* C12: when the resolution returns a latestHistoryId N, the webhook run
\* stores N as the cursor, whatever historyId H its notification carried,
\* and the cursor stays N until the run has answered; a run over k
\* unprocessed messages in which nothing fails ends with exactly one ledger
\* row for each of the k.
C12_ResolvedCursorAndRecords ==
  [][\A r \in Runs :
       /\ (Advances(r) /\ runs[r].latestHistoryId # Null /\ runs'[r].wrote)
          => user'.gmailHistoryId = runs[r].latestHistoryId
       /\ (runs[r].mode = "webhook" /\ runs[r].pc \in {"classify", "persist"})
          => UNCHANGED user
       /\ (/\ runs[r].mode = "webhook"
           /\ runs[r].pc = "done"
           /\ runs[r].body = "ok"
           /\ runs[r].called # {}
           /\ runs[r].errorCount = 0)
          => /\ runs[r].processedCount = Cardinality(runs[r].called)
             /\ \A m \in runs[r].called : ProcessedCopies(m) = 1
             /\ Rows(processedEmails) >= Cardinality(runs[r].called)]_vars

\* A run over two messages has stored the position the source returned and
\* written both rows.
C12_Witness ==
  \E r \in Runs :
    /\ runs[r].mode = "webhook"
    /\ runs[r].pc = "done"
    /\ runs[r].called = {1, 2}
    /\ runs[r].errorCount = 0
    /\ runs[r].processedCount = 2
    /\ runs[r].seen = {}
    /\ Rows(processedEmails) = 2
    /\ user.gmailHistoryId = 3

\* C13: every subscriptions row is inserted when a processed_emails row for
\* its message already exists, in the webhook, the manual sync and the scan;
\* so no subscriptions row stands without the ledger row of its message.
C13_LedgerBeforeSubscription ==
  [][/\ \A r \in Runs, m \in Msgs :
          Materialized(r, m) => ProcessedFor(m) # {}
     /\ \A row \in BagToSet(subscriptions) : ProcessedFor(row.message) # {}
    ]_vars

\* A subscriptions row stands, and its message has its ledger row.
C13_Witness ==
  \E row \in BagToSet(subscriptions) : ProcessedCopies(row.message) = 1

\* C14, as stated: while the account's settings have monitoring disabled, a
\* run started by the webhook, the manual sync or the scan calls the
\* classifier for no message and leaves the cursor, the ledger and the
\* subscriptions as they were.
C14_DisabledIsNoOp ==
  [][~settings.enabled
       => /\ UNCHANGED <<user, processedEmails, subscriptions>>
          /\ \A r \in Runs : runs'[r].called \subseteq runs[r].called]_vars

\* C15: a notification whose verification token is wrong is answered 403
\* "Invalid token", and one with the right token that names an account the
\* users table does not hold is answered 200 "ok"; in both cases the request
\* ends there: the users, settings, ledger, subscription and calendar state is
\* what it was, nothing was resolved from the message source, no cursor was
\* written and the classifier was called for no message.
C15_RejectOrAcknowledge ==
  [][\A r \in Runs :
       (/\ runs[r].pc = "idle"
        /\ runs'[r].pc # "idle"
        /\ runs'[r].mode = "webhook"
        /\ \/ ~runs'[r].tokenOk
           \/ runs'[r].emailAddress \notin {UserEmail, "none"})
       => /\ runs'[r].pc = "done"
          /\ IF runs'[r].tokenOk
               THEN runs'[r].response = 200 /\ runs'[r].body = "ok"
               ELSE runs'[r].response = 403
                    /\ runs'[r].body = "Invalid token"
          /\ UNCHANGED <<user, settings, processedEmails, subscriptions,
                         events>>
          /\ runs'[r].messages = <<>>
          /\ runs'[r].latestHistoryId = Null
          /\ ~runs'[r].wrote
          /\ runs'[r].called = {}
          /\ runs'[r].processedCount = 0
    ]_vars

\* A notification for an unknown account has been acknowledged while the
\* mailbox of the known account holds an unprocessed message.
C15_Witness ==
  \E r \in Runs :
    /\ runs[r].pc = "done"
    /\ runs[r].mode = "webhook"
    /\ runs[r].tokenOk
    /\ runs[r].emailAddress = "stranger@x.com"
    /\ runs[r].response = 200
    /\ \E m \in Arrived : ProcessedFor(m) = {}

\* A call of the token provider that has just been made in slot r.
TokenCalled(r) ==
  /\ runs[r].pc = "idle"
  /\ runs'[r].pc = "done"
  /\ runs'[r].mode = "token"

\* C16, as stated: the provider returns the stored access token, calling no
\* refresh and writing nothing, when the stored expiry is more than 5 minutes
\* ahead; otherwise it returns no token when there is no refresh credential,
\* and calls the refresh endpoint when there is one; it returns no token only
\* when the expiry is not that far ahead and either the refresh credential is
\* missing or the refresh failed.
C16_TokenContract ==
  [][\A r \in Runs : TokenCalled(r) =>
       LET call == runs'[r]
           fresh == /\ user.googleTokenExpiry # Null
                    /\ user.googleTokenExpiry > call.now + EXPIRY_BUFFER_MS
           credential == user.googleRefreshToken # Null
       IN  /\ fresh => /\ call.token = user.googleAccessToken
                       /\ ~call.refreshed
                       /\ user' = user
           /\ ~fresh /\ ~credential => call.token = Null /\ ~call.refreshed
           /\ ~fresh /\ credential => call.refreshed
           /\ call.token = Null =>
                /\ ~fresh
                /\ \/ ~credential
                   \/ call.refreshed /\ call.outcome # "ok"
    ]_vars

\* C17: when the refresh endpoint is called and the call throws or answers
\* with a non-success status, the provider returns no token and the users
\* row keeps its access token, refresh token and expiry.
C17_FailedRefreshKeepsState ==
  [][\A r \in Runs :
       (TokenCalled(r) /\ runs'[r].refreshed
          /\ runs'[r].outcome \in {"network", "status"})
       => /\ runs'[r].token = Null
          /\ user' = user
          /\ runs'[r].before = user
    ]_vars

\* A refresh has failed for an account that held a stale access token.
C17_Witness ==
  \E r \in Runs :
    /\ runs[r].pc = "done"
    /\ runs[r].mode = "token"
    /\ runs[r].refreshed
    /\ runs[r].outcome = "status"
    /\ runs[r].before.googleAccessToken = 1
    /\ runs[r].before.googleTokenExpiry = runs[r].now + EXPIRY_BUFFER_MS
    /\ user = runs[r].before

\* An account's attempt in a sweep ended without a renewed watch.
AttemptFailed(attempt) ==
  attempt.token = Null \/ attempt.watch \in {"api", "db"}

\* C18: a renewal sweep that answers has attempted every account its query
\* returned, in order, and its result list holds exactly one entry per
\* account; the entry is "failed" exactly when the account got no token or
\* its watch registration threw, and a failed account is followed by the
\* attempts for all later ones.  While the sweep is under way it has one
\* entry per account it has passed.
C18_OneEntryPerAccount ==
  \A r \in Runs :
    /\ (runs[r].pc = "sweep")
         => /\ Len(runs[r].results) = runs[r].i - 1
            /\ Len(runs[r].attempts) = runs[r].i - 1
            /\ runs[r].i <= Len(runs[r].usersToRenew)
    /\ (runs[r].pc = "done" /\ runs[r].mode = "cron"
          /\ runs[r].response = 200)
         => /\ Len(runs[r].results) = Len(runs[r].ids)
            /\ Len(runs[r].attempts) = Len(runs[r].ids)
            /\ \A k \in 1..Len(runs[r].ids) :
                 /\ runs[r].results[k].userId = runs[r].ids[k]
                 /\ runs[r].attempts[k].userId = runs[r].ids[k]
                 /\ runs[r].results[k].status \in {"failed", "renewed"}
                 /\ runs[r].results[k].status = "failed"
                      <=> AttemptFailed(runs[r].attempts[k])

\* A sweep over three accounts has answered: the first got no token, the
\* second's watch registration threw, the third was renewed.
C18_Witness ==
  \E r \in Runs :
    /\ runs[r].pc = "done"
    /\ runs[r].mode = "cron"
    /\ runs[r].ids = <<1, 2, 3>>
    /\ runs[r].attempts[1].token = Null
    /\ runs[r].attempts[2].watch = "api"
    /\ runs[r].results[3].status = "renewed"
    /\ accounts[3].gmailWatchExpiry = 7

\* A settings write in slot r has just answered 200.
SettingsWritten(r) ==
  /\ runs[r].pc = "idle"
  /\ runs'[r].pc = "done"
  /\ runs'[r].mode = "settings"
  /\ runs'[r].response = 200

\* C19, as stated: when a settings write that disables monitoring has
\* answered, whatever the watch state before it, whether or not a token was
\* available and whether or not the source accepted the stop, the settings
\* are disabled and the account's cursor and watch expiry are null.
C19_DisableLeavesInactive ==
  [][\A r \in Runs :
       (SettingsWritten(r) /\ runs'[r].body.enabled = "false")
       => /\ ~settings'.enabled
          /\ user'.gmailHistoryId = Null
          /\ user'.gmailWatchExpiry = Null
    ]_vars

\* C20, as stated: a settings write that enables monitoring has called the
\* watch registration by the time it answers, and when it had a token and
\* the source accepted the registration the settings are enabled and the
\* account's cursor and watch expiry are not null.
C20_EnableRegistersWatch ==
  [][\A r \in Runs :
       (SettingsWritten(r) /\ runs'[r].body.enabled = "true")
       => /\ runs'[r].registered
          /\ (runs'[r].token # Null /\ runs'[r].watch # "api")
               => /\ settings'.enabled
                  /\ user'.gmailHistoryId # Null
                  /\ user'.gmailWatchExpiry # Null
    ]_vars

\* C21: within one run of processInBatches the classifier calls in flight
\* never number more than the batch size, and when a call starts, every call
\* that was in flight before it and every item before it has settled.
C21_BoundedConcurrency ==
  [][\A r \in Runs : (runs'[r].pc = "batch") =>
       /\ Cardinality(runs'[r].inflight) <= batchSize
       /\ \A k \in runs'[r].inflight :
            (runs[r].pc # "batch" \/ k \notin runs[r].inflight)
            => /\ runs[r].pc = "batch" => runs[r].inflight \cap runs'[r].inflight = {}
               /\ \A j \in 1..(k - 1) :
                    \/ j \in runs'[r].inflight /\ j >= runs'[r].i
                    \/ runs'[r].results[j] # "pending"
    ]_vars

\* The second slice of two calls is in flight after a call of the first
\* slice was rejected.
C21_Witness ==
  \E r \in Runs :
    /\ runs[r].pc = "batch"
    /\ batchSize = 2
    /\ runs[r].i = 3
    /\ runs[r].inflight = {3, 4}
    /\ runs[r].results[1] = "rejected"

\* C22: a classifyEmail call whose API call threw, whose reply was not text
\* or whose text did not parse returns a classification, and that
\* classification has is_subscription = false and confidence = 0 and does
\* not pass the gate, whatever the reply held.
C22_FailedCallIsNegative ==
  \A r \in Runs :
    (runs[r].pc = "done" /\ runs[r].mode = "classify"
       /\ runs[r].outcome # "parsed")
    => /\ runs[r].classification = FailedClassification
       /\ ~runs[r].classification.is_subscription
       /\ runs[r].classification.confidence = 0
       /\ ~runs[r].materialize

\* A call failed on a reply that would have passed the gate had it parsed.
C22_Witness ==
  \E r \in Runs :
    /\ runs[r].pc = "done"
    /\ runs[r].mode = "classify"
    /\ runs[r].outcome = "bad_json"
    /\ Qualifies(runs[r].reading)
    /\ ~runs[r].materialize

\* A createReminder call in slot r has just returned.
ReminderCalled(r) ==
  /\ runs[r].pc = "idle"
  /\ runs'[r].pc = "done"
  /\ runs'[r].mode = "reminder"

\* C23: a createReminder call whose end date minus the lead days lies before
\* the clock it reads returns null and leaves the calendar without a new
\* event; a call that adds an event had a reminder date at or after that
\* clock, and adds exactly one.
C23_NoRetroactiveReminder ==
  [][\A r \in Runs : ReminderCalled(r) =>
       LET call == runs'[r]
           reminderDate == call.endDate - call.reminderDaysBefore
       IN  /\ reminderDate < call.now
             => call.eventId = Null /\ events' = events
           /\ events' # events
             => /\ reminderDate >= call.now
                /\ events' = events + 1
                /\ call.eventId = events'
    ]_vars

\* A call whose reminder date had passed by one day returned null, and the
\* calendar is empty.
C23_Witness ==
  \E r \in Runs :
    /\ runs[r].pc = "done"
    /\ runs[r].mode = "reminder"
    /\ runs[r].endDate - runs[r].reminderDaysBefore = runs[r].now - 1
    /\ runs[r].eventId = Null
    /\ events = 0

\* C24, as stated: a scan started with force classifies messages that have a
\* ledger row, yet it inserts a ledger row only for a message that has none
\* and inserts a subscription only when no subscription with the message's
\* subject exists at that moment.
C24_ForcedScanNoDuplicates ==
  [][\A r \in Runs :
       (/\ runs[r].pc = "loop"
        /\ runs[r].mode = "scan"
        /\ runs[r].force
        /\ runs'[r] # runs[r])
       => LET m == runs[r].todo[runs[r].i]
          IN  /\ processedEmails' # processedEmails => ProcessedFor(m) = {}
              /\ subscriptions' # subscriptions
                   => SubscriptionFor(content[m].subject) = {}
    ]_vars

\* The messages a finished run had as candidates: those it skipped,
\* classified or tried to persist.
Candidates(r) == {m \in Msgs : runs[r].item[m] # "none"}

\* C25, as stated: when a webhook or manual-sync run has answered after its
\* last message, its processed, skipped and error counts add up to the
\* number of its candidate messages, and its subscription count is the
\* number of subscriptions rows it inserted.
C25_CountersPartition ==
  \A r \in Runs :
    (/\ runs[r].pc = "done"
     /\ runs[r].mode \in {"webhook", "manual"}
     /\ runs[r].response = 200
     /\ runs[r].body \in {"ok", "success"})
    => /\ runs[r].processedCount + runs[r].skippedCount + runs[r].errorCount
            = Cardinality(Candidates(r))
       /\ runs[r].subscriptionCount
            = Cardinality({m \in Msgs : runs[r].item[m] = "created"})

\* The messages of run r whose persistence work (ledger INSERT, reminder,
\* subscriptions INSERT) has started and not yet settled.
Persisting(r) == {m \in Msgs : runs[r].item[m] \in {"ins", "sub"}}

\* C26, as stated: within one run at most one message's persistence work is
\* under way at any time.
C26_SequentialPersistence ==
  \A r \in Runs : Cardinality(Persisting(r)) <= 1

\* The outcomes of a message whose ledger or subscriptions INSERT failed.
WriteFailed == {"ledgerFailed", "duplicate", "subFailed"}

C28_SourceFailureAborts ==
  [][\A r \in Runs :
       (runs'[r].sourceError /\ runs'[r] # runs[r])
       => /\ runs[r].pc = "idle"
          /\ runs'[r].pc = "done"
          /\ IF runs'[r].mode = "webhook"
               THEN runs'[r].response = 200 /\ runs'[r].body = "error_logged"
               ELSE runs'[r].response = 500
          /\ UNCHANGED <<user, processedEmails, subscriptions, events>>
          /\ ~runs'[r].wrote
          /\ runs'[r].called = {}
          /\ runs'[r].processedCount = 0
    ]_vars

\* The source failed for a webhook run that came after a run had advanced
\* the cursor and recorded a message.
C28_Witness ==
  \E r \in Runs :
    /\ runs[r].pc = "done"
    /\ runs[r].mode = "webhook"
    /\ runs[r].sourceError
    /\ user.gmailHistoryId > 1
    /\ BagToSet(processedEmails) # {}

\* C29, as stated: when the token provider returns a token it obtained from
\* the refresh endpoint, the users row holds that token, with an expiry the
\* refresh response gave, at the moment the call returns.
C29_RefreshedTokenIsStored ==
  [][\A r \in Runs :
       (TokenCalled(r) /\ runs'[r].refreshed /\ runs'[r].outcome = "ok")
       => /\ runs'[r].token # Null
          /\ user'.googleAccessToken = runs'[r].token
          /\ user'.googleTokenExpiry \in {runs'[r].now + e : e \in ExpiresIn}
    ]_vars

\* The accounts that are due on the day of the sweep: a watch expiry is
\* stored, it is earlier than one day from now, and an access token is stored.
Due ==
  {id \in AccountIds :
     /\ accounts[id].gmailWatchExpiry # Null
     /\ accounts[id].gmailWatchExpiry < 0 + 1
     /\ accounts[id].googleAccessToken # Null}

\* C30: the query of a renewal sweep returns exactly the due accounts, and
\* each iteration of the sweep works on the next account of that list and on
\* no other row.  An account whose registration succeeded has its stored
\* watch expiry replaced by a later one that lies outside the renewal window,
\* so it is no longer due; an account whose attempt failed keeps the expiry
\* it had.
C30_SweepRenewsDueAccounts ==
  [][\A r \in Runs :
       /\ (runs[r].pc = "idle" /\ runs'[r].pc = "sweep")
            => {runs'[r].usersToRenew[k].id :
                  k \in 1..Len(runs'[r].usersToRenew)} = Due
       /\ (runs[r].pc = "idle" /\ runs'[r].pc = "done"
             /\ runs'[r].mode = "cron" /\ runs'[r].response = 200)
            => Due = {}
       /\ (runs[r].pc = "sweep")
            => LET id == runs[r].usersToRenew[runs[r].i].id
                   attempt == runs'[r].attempts[Len(runs'[r].attempts)]
               IN  /\ attempt.userId = id
                   /\ \A other \in AccountIds \ {id} :
                        accounts'[other] = accounts[other]
                   /\ IF AttemptFailed(attempt)
                        THEN accounts'[id].gmailWatchExpiry
                               = accounts[id].gmailWatchExpiry
                        ELSE /\ accounts'[id].gmailWatchExpiry
                                  > accounts[id].gmailWatchExpiry
                             /\ id \in Due
                             /\ id \notin Due'
    ]_vars

\* A sweep has answered after renewing the one due account: of the other
\* two, one has a watch that expires exactly one day from now and one is
\* expiring but holds no access token.
C30_Witness ==
  \E r \in Runs :
    /\ runs[r].pc = "done"
    /\ runs[r].mode = "cron"
    /\ runs[r].ids = <<3>>
    /\ runs[r].results[1].status = "renewed"
    /\ accounts[3].gmailWatchExpiry = 7
    /\ accounts[1].gmailWatchExpiry = 1
    /\ accounts[2].gmailWatchExpiry = 0
    /\ accounts[2].googleAccessToken = Null

\* A webhook run in slot r makes its cursor write in this step.
CursorWrite(r) ==
  /\ runs[r].pc = "advance"
  /\ runs'[r] # runs[r]
  /\ user' # user

\* C31, as stated: a webhook run does not write its cursor over a users row
\* whose watch a settings write has registered or cleared since the run read
\* the row.
C31_NoLostCursorUpdate ==
  [][\A r \in Runs :
       (CursorWrite(r)
          /\ user.gmailWatchExpiry # runs[r].rowRead.gmailWatchExpiry)
       => user'.gmailHistoryId = user.gmailHistoryId
    ]_vars

OutsidePrimaryInbox(m) ==
  CATEGORY_PROMOTIONS \in content[m].labelIds \/ INBOX \notin content[m].labelIds

\* C32: in every trigger mode a message that carries the promotions label or
\* lacks the inbox label is never among the messages a run works on, is never
\* passed to the classifier, and has neither a ledger row nor a subscription
\* row.
C32_PromotionsNeverProcessed ==
  \A m \in Arrived :
    OutsidePrimaryInbox(m)
    => /\ m \notin LedgerIds
       /\ \A row \in BagToSet(subscriptions) : row.message # m
       /\ \A r \in Runs :
            /\ m \notin runs[r].called
            /\ m \notin Range(runs[r].todo)
            /\ runs[r].item[m] = "none"

\* A promotions message and a primary one have arrived; a manual sync has
\* answered after classifying and recording the primary one alone.
C32_Witness ==
  \E r \in Runs :
    /\ Len(content) = 2
    /\ content[1].labelIds = {INBOX, CATEGORY_PROMOTIONS}
    /\ content[2].labelIds = {INBOX}
    /\ runs[r].pc = "done"
    /\ runs[r].mode = "manual"
    /\ runs[r].called = {2}
    /\ LedgerIds = {2}

\* The positions of a run with message m after its own ledger INSERT
\* succeeded.
PastLedgerInsert == {"sub", "recorded", "exists", "subFailed", "created"}

\* C33: with webhook and manual-sync runs interleaved, at most one
\* subscription row is made from one message id, and at most one run is ever
\* past the ledger INSERT for it: a run whose INSERT hit the unique constraint
\* stands at "duplicate" and has neither a reminder nor a subscription to
\* make for that message.
C33_OneSubscriptionPerMessage ==
  \A m \in Msgs :
    /\ LET made == {row \in BagToSet(subscriptions) : row.message = m}
       IN  /\ Cardinality(made) <= 1
           /\ \A row \in made : CopiesIn(row, subscriptions) = 1
    /\ Cardinality({r \in Runs : runs[r].item[m] \in PastLedgerInsert}) <= 1
    /\ (\E r \in Runs : runs[r].item[m] \in PastLedgerInsert)
         => m \in LedgerIds

\* A webhook run and a manual sync both classified message 1; one made the
\* subscription, the other's ledger INSERT hit the unique constraint.
C33_Witness ==
  \E r, q \in Runs :
    /\ runs[r].mode = "webhook"
    /\ runs[q].mode = "manual"
    /\ 1 \in runs[r].called
    /\ 1 \in runs[q].called
    /\ {runs[r].item[1], runs[q].item[1]} = {"created", "duplicate"}
    /\ Rows(subscriptions) = 1

\* A subscription row made from message m is inserted in this step.
SubscriptionAdded(m) ==
  \E row \in BagToSet(subscriptions') :
    /\ row.message = m
    /\ CopiesIn(row, subscriptions') > CopiesIn(row, subscriptions)

\* C34: ledger rows are never removed; a run that is not forced inserts a
\* subscription for a message only from the position it reached by inserting
\* the message's ledger row itself, and it reaches that position only in the
\* step that inserts the row.  So once a message has its ledger row and the
\* run that wrote it has left that position without a subscription (failed
\* INSERT), no run that is not forced makes a subscription for the message.
C34_LedgerRowEndsDetection ==
  [][/\ \A id \in LedgerIds : id \in LedgerIds'
     /\ \A r \in Runs, m \in Msgs :
          (runs'[r] # runs[r] /\ ~runs[r].force)
          => /\ SubscriptionAdded(m) => runs[r].item[m] = "sub"
             /\ (runs[r].item[m] # "sub" /\ runs'[r].item[m] = "sub")
                  => (m \notin LedgerIds /\ m \in LedgerIds')
             /\ (runs[r].item[m] = "subFailed")
                  => runs'[r].item[m] \in {"subFailed", "none"}
    ]_vars

\* Message 1 has a ledger row that says subscription and no subscription
\* row: the run that recorded it failed on the subscriptions INSERT and is
\* still at work on another message, and a run that was not forced has
\* skipped message 1 and answered.
C34_Witness ==
  \E r, q \in Runs :
    /\ runs[r].item[1] = "subFailed"
    /\ runs[q].pc = "done" /\ runs[q].item[1] = "skipped"
    /\ ~runs[q].force
    /\ \E row \in BagToSet(processedEmails) :
         row.gmailMessageId = 1 /\ row.isSubscription
    /\ \A row \in BagToSet(subscriptions) : row.message # 1

\* Run r holds, for message m, the default result a failed classifier call
\* was absorbed into, and makes its ledger INSERT for m in this step.
InsertsAbsorbed(r, m) ==
  /\ runs[r].item[m] = "ins"
  /\ runs[r].result[m] = [status |-> "fulfilled", c |-> FailedClassification]
  /\ runs'[r].item[m] # "ins"

\* C35: a message whose classifier call failed and was absorbed into the
\* default result goes on to the ledger INSERT like any other: unless the
\* INSERT itself fails, the message gets a ledger row with is_subscription =
\* false, the processed count goes up by one, the error count does not
\* change, and no subscription or reminder is made.  A run that is not
\* forced and started when the message had its ledger row does not pass it
\* to the classifier.
C35_AbsorbedFailureIsRecorded ==
  [][\A r \in Runs, m \in Msgs :
       /\ InsertsAbsorbed(r, m)
            => \/ /\ runs'[r].item[m] \in {"ledgerFailed", "duplicate"}
                  /\ UNCHANGED processedEmails
               \/ /\ processedEmails' = processedEmails (+)
                       SetToBag({[userId |-> UserId, gmailMessageId |-> m,
                                  isSubscription |-> FALSE]})
                  /\ runs'[r].item[m] = "recorded"
                  /\ runs'[r].processedCount = runs[r].processedCount + 1
                  /\ runs'[r].errorCount = runs[r].errorCount
                  /\ UNCHANGED <<subscriptions, events>>
       /\ (m \in runs'[r].called /\ m \notin runs[r].called
             /\ ~runs'[r].force)
            => m \notin runs'[r].seen
    ]_vars

\* A webhook run has classified two messages: the call for message 2 failed
\* and was absorbed, message 1 is recorded, and the run counts no error.
C35_Witness ==
  \E r \in Runs :
    /\ runs[r].mode = "webhook"
    /\ runs[r].item[1] = "recorded"
    /\ runs[r].item[2] = "ins"
    /\ runs[r].result[2] = [status |-> "fulfilled", c |-> FailedClassification]
    /\ runs[r].processedCount = 1
    /\ runs[r].errorCount = 0

\* C36, as stated: when no run is at work, every calendar event the
\* ingestion created is referenced by a subscription row that holds its
\* event id.
C36_EveryReminderReferenced ==
  (\A r \in Runs : runs[r].pc \in {"idle", "done"})
  => \A id \in 1..events :
       \E row \in BagToSet(subscriptions) : row.calendarEventId = id

\* The first n elements of a finite set of numbers.
Lowest(S, n) == {m \in S : Cardinality({k \in S : k < m}) < n}

C40_SweepSkipsDisabled ==
  [][(runs' = runs /\ ~settings.enabled)
       => user'.gmailWatchExpiry = user.gmailWatchExpiry
    ]_vars

\* Monitoring is enabled and the account holds an access token that is valid.
EnabledWithCredentials ==
  /\ settings.enabled
  /\ user.googleAccessToken # Null
  /\ IsTokenValid(user.googleTokenExpiry, 0)

\* The watch is registered and its expiry lies in the future.
ActiveWatch ==
  user.gmailWatchExpiry # Null /\ user.gmailWatchExpiry > 0

\* C39, as stated: with the sweep running again and again, an account whose
\* monitoring is enabled and whose credentials are valid comes to have an
\* active watch, unless monitoring is switched off or the credentials lapse
\* first.
C39_EnabledBecomesActive ==
  EnabledWithCredentials ~> (ActiveWatch \/ ~EnabledWithCredentials)

====
